---- MODULE Spec2Model ----
(***************************************************************************)
(* Device status state machine and indicator engine of the                 *)
(* SMAF-Vanilla-Development-Kit firmware.                                  *)
(*                                                                         *)
(* Two execution contexts are modelled: the Arduino setup()/loop() task    *)
(* ("setup") and the FreeRTOS task DeviceStatusThread ("render").  They    *)
(* share deviceStatus and visualNotifications (plain globals) and the      *)
(* `notifications` object (NeoPixel strip and speaker).  Every call on the *)
(* strip or the speaker and every delay() is one step, so the two contexts *)
(* interleave at the granularity of library calls.                         *)
(*                                                                         *)
(* deviceStatus is a one-byte global; the render loop calls opaque library *)
(* functions between two reads, so the build reloads it in every iteration *)
(* and a byte load cannot tear: a read returns the last value stored.      *)
(*                                                                         *)
(* Colours are the values passed to Adafruit_NeoPixel::Color; the          *)
(* library's brightness scaling keeps zero channels zero and non-zero      *)
(* channels non-zero and is not part of the colour here.                   *)
(*                                                                         *)
(* The task watchdog is a set of subscribed tasks and the time since the   *)
(* subscribed task last reset it; time advances only while loop() runs,    *)
(* whose statements may block for any length of time, and the expiry of    *)
(* the timeout resets the device.                                          *)
(***************************************************************************)
EXTENDS Integers, Sequences, FiniteSets, TLC

VARIABLES
    deviceStatus,         \* DeviceStatusEnum deviceStatus
    visualNotifications,  \* static bool visualNotifications
    audioNotifications,   \* static bool audioNotifications
    sketch,               \* which sketch of the repository is flashed
    nvs,                  \* preferences kept in non-volatile storage
    mpc,                  \* position of the setup()/loop() task
    mops,                 \* calls left in the notifications method setup is in
    rpc,                  \* position of DeviceStatusThread
    rops,                 \* calls left in the notifications method the thread is in
    dispatched,           \* value the switch of the current iteration read
    reads,                \* reads of deviceStatus in the current iteration
    invoked,              \* pattern renderers invoked in the current iteration
    frames,               \* (pixel 0, pixel 1, ms) displayed in the current iteration
    pixels,               \* Adafruit_NeoPixel pixel buffer
    shown,                \* colours latched by the LEDs (last show())
    begun,                \* Adafruit_NeoPixel::begin() has run
    brightness,           \* value given to setBrightness (0: never set)
    speaker,              \* frequency the speaker pin plays (0: silent)
    users,                \* which context has operated which resource
    wifi,                 \* WiFi.status() == WL_CONNECTED
    mqtt,                 \* mqtt.connected()
    melodies,             \* melodies started on the speaker since the reset
    notes,                \* (frequency, ms) of every delay() of the melodies since the reset
    wdtTasks,             \* tasks subscribed to the task watchdog (esp_task_wdt_add)
    wdtAge,               \* seconds since the subscribed task last reset the watchdog
    button,               \* level setup() read on the configuration button
    pvt,                  \* what gnss.getPVT() gave the current iteration of loop()
    published,            \* deviceStatus at each mqtt.publish() of the current iteration
    subscribed,           \* mqtt.subscribe() has been called on the current connection
    delayed,              \* argument of the delay() loop() is waiting in (0: in none)
    rcp,                  \* position inside WiFiConfig::renderConfigurationPage()
    request,              \* request line read from the client of the current call
    response              \* the HTTP response of the current call has been sent

vars == <<deviceStatus, visualNotifications, audioNotifications, sketch, nvs, mpc, mops,
          rpc, rops, dispatched, reads, invoked, frames, pixels, shown, begun,
          brightness, speaker, users, wifi, mqtt, melodies, notes, wdtTasks, wdtAge,
          button, pvt, published, subscribed, delayed, rcp, request, response>>

page == <<rcp, request, response>>
cfg == <<sketch, nvs, page>>
hw == <<pixels, shown, begun, brightness, speaker, users>>
renderVars == <<rpc, rops, dispatched, reads, invoked, frames>>
netVars == <<wifi, mqtt>>
played == <<melodies, notes>>
wdt == <<wdtTasks, wdtAge>>
io == <<button, pvt, published, subscribed, delayed>>

----------------------------------------------------------------------------
(* enum DeviceStatusEnum : byte *)
NONE == 0
NOT_READY == 1
READY_TO_SEND == 2
WAITING_GNSS == 3
MAINTENANCE_MODE == 4

DeviceStatusEnum == {NONE, NOT_READY, READY_TO_SEND, WAITING_GNSS, MAINTENANCE_MODE}

\* The switch has read nothing yet.
NoStatus == 255

(* AudioVisualNotifications notifications(4, 2, 30, 5) *)
neoPixelCount == 2
neoPixelBrightness == 30

NOTE_E6 == 1319
NOTE_F6 == 1397
NOTE_G6 == 1568

\* Adafruit_NeoPixel::Color(r, g, b) packs the channels into one word.
Color(r, g, b) == r * 65536 + g * 256 + b

Off == Color(0, 0, 0)
Red == Color(255, 0, 0)
Green == Color(0, 255, 0)
Blue == Color(0, 0, 255)
Magenta == Color(255, 0, 255)

----------------------------------------------------------------------------
(* Calls on the strip, the speaker and the clock. *)
Begin == [op |-> "begin", a |-> 0, b |-> 0]
SetBrightness(v) == [op |-> "setBrightness", a |-> v, b |-> 0]
SetPixelColor(n, c) == [op |-> "setPixelColor", a |-> n, b |-> c]
Clear == [op |-> "clear", a |-> 0, b |-> 0]
Show == [op |-> "show", a |-> 0, b |-> 0]
Delay(ms) == [op |-> "delay", a |-> ms, b |-> 0]
Tone(f) == [op |-> "tone", a |-> f, b |-> 0]
NoTone == [op |-> "noTone", a |-> 0, b |-> 0]

\* An initialisation that also blanks the strip.
initializeVisualNotificationsAndClear ==
    <<Begin, SetBrightness(neoPixelBrightness), Clear, Show>>

initializeVisualNotifications == <<Begin, SetBrightness(neoPixelBrightness)>>

\* The pixel buffer is cleared but not sent to the LEDs.
clearAllVisualNotificationsNoShow == <<Clear>>

clearAllVisualNotifications == <<Clear, Show>>

\* The last note is left playing when the method returns.
introAudioNotificationLeftPlaying ==
    << Tone(NOTE_E6), Delay(120), NoTone,
       Tone(NOTE_F6), Delay(120), NoTone,
       Tone(NOTE_G6), Delay(320) >>

introAudioNotification ==
    << Tone(NOTE_E6), Delay(120), NoTone,
       Tone(NOTE_F6), Delay(120), NoTone,
       Tone(NOTE_G6), Delay(320), NoTone >>

\* The melody with a rest after the G6 of its first part as well.
maintenanceAudioNotificationWithRest ==
    << Tone(NOTE_E6), Delay(120), NoTone, Delay(80),
       Tone(NOTE_E6), Delay(120), NoTone, Delay(80),
       Tone(NOTE_F6), Delay(120), NoTone, Delay(80),
       Tone(NOTE_G6), Delay(280), NoTone, Delay(80),
       Tone(NOTE_E6), Delay(120), NoTone,
       Tone(NOTE_F6), Delay(120), NoTone,
       Tone(NOTE_G6), Delay(320), NoTone >>

maintenanceAudioNotification ==
    << Tone(NOTE_E6), Delay(120), NoTone, Delay(80),
       Tone(NOTE_E6), Delay(120), NoTone, Delay(80),
       Tone(NOTE_F6), Delay(120), NoTone, Delay(80),
       Tone(NOTE_G6), Delay(280), NoTone,
       Tone(NOTE_E6), Delay(120), NoTone,
       Tone(NOTE_F6), Delay(120), NoTone,
       Tone(NOTE_G6), Delay(320), NoTone >>

notReadyInterval == 240

\* Both pixels red, then both off.
notReadyVisualNotificationInPhase ==
    << SetPixelColor(0, Color(255, 0, 0)), SetPixelColor(1, Color(255, 0, 0)), Show,
       Delay(notReadyInterval),
       SetPixelColor(0, Color(0, 0, 0)), SetPixelColor(1, Color(0, 0, 0)), Show,
       Delay(notReadyInterval) >>

notReadyVisualNotification ==
    << SetPixelColor(0, Color(255, 0, 0)), SetPixelColor(1, Color(0, 0, 0)), Show,
       Delay(notReadyInterval),
       SetPixelColor(0, Color(0, 0, 0)), SetPixelColor(1, Color(255, 0, 0)), Show,
       Delay(notReadyInterval) >>

\* A rest twice as long between two bursts.
delayBeforeNextBurstDoubled == 2 * 1200

delayBeforeNextBurst == 1200
\* One blink fewer in a burst.
blinkCountThree == 4 - 1

blinkCount == 4
blinkDelay == 40

\* Body of the for loop of readyToSendVisualNotification, from iteration i on.
RECURSIVE readyToSendBurst(_)
readyToSendBurst(i) ==
    IF i < blinkCount
    THEN << SetPixelColor(0, Color(0, 255, 0)), SetPixelColor(1, Color(0, 255, 0)), Show,
            Delay(blinkDelay) >>
         \o clearAllVisualNotifications
         \o << Delay(blinkDelay) >>
         \o readyToSendBurst(i + 1)
    ELSE << >>

\* A READY_TO_SEND pattern that is a copy of the WAITING_GNSS one.
readyToSendVisualNotificationAsWaiting ==
    << SetPixelColor(0, Color(0, 0, 255)), SetPixelColor(1, Color(0, 0, 0)), Show,
       Delay(240),
       SetPixelColor(0, Color(0, 0, 0)), SetPixelColor(1, Color(0, 0, 255)), Show,
       Delay(240) >>

readyToSendVisualNotification ==
    readyToSendBurst(0) \o << Delay(delayBeforeNextBurst) >>

waitingGnssInterval == 240

\* The second phase lights a third pixel.
waitingGnssFixVisualNotificationThirdPixel ==
    << SetPixelColor(0, Color(0, 0, 255)), SetPixelColor(1, Color(0, 0, 0)), Show,
       Delay(waitingGnssInterval),
       SetPixelColor(0, Color(0, 0, 0)), SetPixelColor(2, Color(0, 0, 255)), Show,
       Delay(waitingGnssInterval) >>

waitingGnssFixVisualNotification ==
    << SetPixelColor(0, Color(0, 0, 255)), SetPixelColor(1, Color(0, 0, 0)), Show,
       Delay(waitingGnssInterval),
       SetPixelColor(0, Color(0, 0, 0)), SetPixelColor(1, Color(0, 0, 255)), Show,
       Delay(waitingGnssInterval) >>

loadingInterval == 240

\* Both pixels magenta, then both off.
loadingVisualNotificationInPhase ==
    << SetPixelColor(0, Color(255, 0, 255)), SetPixelColor(1, Color(255, 0, 255)), Show,
       Delay(loadingInterval),
       SetPixelColor(0, Color(0, 0, 0)), SetPixelColor(1, Color(0, 0, 0)), Show,
       Delay(loadingInterval) >>

loadingVisualNotification ==
    << SetPixelColor(0, Color(255, 0, 255)), SetPixelColor(1, Color(0, 0, 0)), Show,
       Delay(loadingInterval),
       SetPixelColor(0, Color(0, 0, 0)), SetPixelColor(1, Color(255, 0, 255)), Show,
       Delay(loadingInterval) >>

maintenanceInterval == 240

\* The maintenance pattern lighting the second pixel in the red of NOT_READY.
maintenanceVisualNotificationRedPixel ==
    << SetPixelColor(0, Color(255, 0, 255)), SetPixelColor(1, Color(255, 0, 0)), Show,
       Delay(maintenanceInterval) >>
    \o clearAllVisualNotifications
    \o << Delay(maintenanceInterval) >>

\* The strip is not cleared between the two intervals.
maintenanceVisualNotificationNoClear ==
    << SetPixelColor(0, Color(255, 0, 255)), SetPixelColor(1, Color(255, 0, 255)), Show,
       Delay(maintenanceInterval),
       Delay(maintenanceInterval) >>

maintenanceVisualNotification ==
    << SetPixelColor(0, Color(255, 0, 255)), SetPixelColor(1, Color(255, 0, 255)), Show,
       Delay(maintenanceInterval) >>
    \o clearAllVisualNotifications
    \o << Delay(maintenanceInterval) >>

\* A switch that has lost its MAINTENANCE_MODE case.
VisualNotificationNoMaintenance(status) ==
    CASE status = NONE -> loadingVisualNotification
      [] status = NOT_READY -> notReadyVisualNotification
      [] status = READY_TO_SEND -> readyToSendVisualNotification
      [] status = WAITING_GNSS -> waitingGnssFixVisualNotification
      [] OTHER -> << >>

\* switch (deviceStatus) of DeviceStatusThread: the renderer of each case.
VisualNotification(status) ==
    CASE status = NONE -> loadingVisualNotification
      [] status = NOT_READY -> notReadyVisualNotification
      [] status = READY_TO_SEND -> readyToSendVisualNotification
      [] status = WAITING_GNSS -> waitingGnssFixVisualNotification
      [] status = MAINTENANCE_MODE -> maintenanceVisualNotification
      [] OTHER -> << >>

\* A build that loads deviceStatus once and keeps it in a register.
SwitchValueHoisted == IF dispatched = NoStatus THEN deviceStatus ELSE dispatched

\* The value the switch statement reads.
SwitchValue == deviceStatus

----------------------------------------------------------------------------
(* SensoryAlert sensoryAlert(4, 2, 60, 5) and its methods. *)
sensoryBrightness == 60

initializeNeoPixel == <<Begin, SetBrightness(sensoryBrightness)>>

clearNeoPixel == <<Clear, Show>>

playIntroMelody ==
    << Tone(NOTE_E6), Delay(160), NoTone,
       Tone(NOTE_F6), Delay(160), NoTone,
       Tone(NOTE_G6), Delay(320), NoTone >>

playConfigurationMelody == << Tone(NOTE_E6), Delay(1600), NoTone >>

displayNotReadyMode ==
    << SetPixelColor(0, Color(255, 0, 0)), SetPixelColor(1, Color(0, 0, 0)), Show,
       Delay(240),
       SetPixelColor(0, Color(0, 0, 0)), SetPixelColor(1, Color(255, 0, 0)), Show,
       Delay(240) >>

\* Body of the for loop of displayReadyToSendMode, from iteration i on.
RECURSIVE displayReadyToSendBurst(_)
displayReadyToSendBurst(i) ==
    IF i < 4
    THEN << SetPixelColor(0, Color(0, 255, 0)), SetPixelColor(1, Color(0, 255, 0)), Show,
            Delay(40) >>
         \o clearNeoPixel
         \o << Delay(40) >>
         \o displayReadyToSendBurst(i + 1)
    ELSE << >>

displayReadyToSendMode == displayReadyToSendBurst(0) \o << Delay(1200) >>

\* The strip is not cleared after the blue phase.
displayWaitingGnssModeNoClear ==
    << SetPixelColor(0, Color(0, 0, 255)), SetPixelColor(1, Color(0, 0, 255)), Show,
       Delay(240),
       Delay(240) >>

displayWaitingGnssMode ==
    << SetPixelColor(0, Color(0, 0, 255)), SetPixelColor(1, Color(0, 0, 255)), Show,
       Delay(240) >>
    \o clearNeoPixel
    \o << Delay(240) >>

displayMaintenanceMode ==
    << SetPixelColor(0, Color(255, 0, 255)), SetPixelColor(1, Color(255, 0, 255)), Show,
       Delay(240) >>
    \o clearNeoPixel
    \o << Delay(240) >>

\* switch (deviceStatus) of the DeviceStatusThread built on SensoryAlert.
SensoryDisplay(status) ==
    CASE status = NONE -> clearNeoPixel
      [] status = NOT_READY -> displayNotReadyMode
      [] status = READY_TO_SEND -> displayReadyToSendMode
      [] status = WAITING_GNSS -> displayWaitingGnssMode
      [] status = MAINTENANCE_MODE -> displayMaintenanceMode
      [] OTHER -> << >>

----------------------------------------------------------------------------
(* Effect of one call on the strip and the speaker, made by context ctx. *)
Resource(op) ==
    CASE op.op \in {"setPixelColor", "clear", "show"} -> "strip"
      [] op.op \in {"begin", "setBrightness"} -> "init"
      [] op.op \in {"tone", "noTone"} -> "speaker"
      [] OTHER -> "none"

\* Adafruit_NeoPixel::setPixelColor ignores an index outside the strip.
PixelsAfter(op, px) ==
    CASE op.op = "setPixelColor" /\ op.a < neoPixelCount -> [px EXCEPT ![op.a] = op.b]
      [] op.op = "clear" -> [n \in 0..(neoPixelCount - 1) |-> Off]
      [] OTHER -> px

\* Adafruit_NeoPixel::show() sends the pixel buffer to the LEDs.
ShownAfter(op, px, sh) == IF op.op = "show" THEN px ELSE sh

Call(op, ctx) ==
    /\ pixels' = PixelsAfter(op, pixels)
    /\ shown' = ShownAfter(op, pixels, shown)
    /\ begun' = (begun \/ op.op = "begin")
    /\ brightness' = IF op.op = "setBrightness" THEN op.a ELSE brightness
    /\ speaker' = CASE op.op = "tone" -> op.a
                    [] op.op = "noTone" -> 0
                    [] OTHER -> speaker
    /\ users' = IF Resource(op) = "none"
                THEN users
                ELSE [users EXCEPT ![Resource(op)] = @ \cup {ctx}]

\* What the speaker plays while a delay() runs (frequency 0: silence).
Note(f, ms) == [f |-> f, ms |-> ms]

\* What the LEDs display while a delay() runs.
Frame(c0, c1, ms) == [p0 |-> c0, p1 |-> c1, ms |-> ms]

NoUsers == [strip |-> {}, init |-> {}, speaker |-> {}]

\* SMAF-Vanilla-Development-Kit.ino with AudioVisualNotifications, and the
\* sketch built on SensoryAlert.
Vanilla == "Vanilla"
Sensory == "Sensory"
Sketches == {Vanilla, Sensory}

----------------------------------------------------------------------------
(* The preferences (WiFiConfig).  The non-volatile storage holds, under    *)
(* each key, the set of the value stored: no value or one.                 *)
NETWORK_NAME == "netName"
NETWORK_PASS == "netPass"
MQTT_SERVER_ADDRESS == "mqttSrvAdr"
MQTT_SERVER_PORT == "mqttSrvPort"
MQTT_USERNAME == "mqttUser"
MQTT_PASS == "mqttPass"
MQTT_CLIENT_ID == "mqttClient"
MQTT_TOPIC == "mqttTopic"
AUDIO_NOTIFICATIONS == "audioNotif"
VISUAL_NOTIFICATIONS == "visualNotif"

\* Keys of the seven string preferences.
StringKeys ==
    {NETWORK_NAME, NETWORK_PASS, MQTT_SERVER_ADDRESS, MQTT_USERNAME, MQTT_PASS,
     MQTT_CLIENT_ID, MQTT_TOPIC}

\* Preferences::isKey(key) is false.
Missing == {}

\* Preferences::isKey(key) is true and the key holds value.
Stored(value) == {value}

\* Preferences::getString(key), getInt(key), getBool(key) of a key that is stored.
Get(stored) == CHOOSE value \in stored : TRUE

\* Default loadString() stores under a key that is missing.
Unknown == "Unknown"

\* Strings a preference or a form field can hold.
Strings == {"", Unknown, "smaf"}

\* Values of a uint16_t port the model distinguishes.
Ports == {0, 1883}

Slots(values) == {Missing} \cup {Stored(value) : value \in values}

Preferences ==
    [str : [StringKeys -> Slots(Strings)],
     port : Slots(Ports),
     audio : Slots(BOOLEAN),
     visual : Slots(BOOLEAN)]

\* if (!preferences.isKey(key)) preferences.putString(key, "Unknown");
\* data = preferences.getString(key);
loadString(stored) == IF stored = Missing THEN Unknown ELSE Get(stored)

\* if (!preferences.isKey(key)) preferences.putInt(key, 0); data = preferences.getInt(key);
loadInt(stored) == IF stored = Missing THEN 0 ELSE Get(stored)

\* if (!preferences.isKey(key)) preferences.putBool(key, true); data = preferences.getBool(key);
loadBool(stored) == IF stored = Missing THEN TRUE ELSE Get(stored)

\* The storage after the getters of WiFiConfig have loaded every key: a
\* key that was missing holds its default.
Loaded(store) ==
    [str |-> [k \in StringKeys |-> Stored(loadString(store.str[k]))],
     port |-> Stored(loadInt(store.port)),
     audio |-> Stored(loadBool(store.audio)),
     visual |-> Stored(loadBool(store.visual))]

\* bool isEmpty(const char* str): a null pointer or a first character '\0'.
isEmpty(str) == str = ""

\* The pointer a getter returns: data.c_str() of its static String.
c_str(key) == [object |-> "data", of |-> key]

\* The pointer a string literal of WiFiConfig.cpp evaluates to.
Literal(chars) == [object |-> "literal", of |-> chars]

\* bool WiFiConfig::loadPreferences() of WiFiConfig.cpp.  networkName ==
\* "Unknown" compares two pointers, the buffer of the getter's String and
\* the literal, not the characters they point to.
loadPreferences(store) ==
    /\ \A key \in StringKeys :
          ~(isEmpty(loadString(store.str[key])) \/ c_str(key) = Literal(Unknown))
    /\ loadInt(store.port) # 0

\* void WiFiConfig::loadPreferences() and bool isConfigValid() of the
\* WiFiConfig the SensoryAlert sketch is built with: getString(key,
\* String()) and getInt(key, 0), then every string non-empty and port # 0.
isConfigValid(store) ==
    /\ \A key \in StringKeys : store.str[key] \notin {Missing, Stored("")}
    /\ store.port \notin {Missing, Stored(0)}

\* The request line of an HTTP request: its path and the fields of its
\* query string (a field the browser left out is not in the domain).
Query(name, port, audio, visual) ==
    [id \in StringKeys \cup {MQTT_SERVER_PORT}
              \cup (IF audio THEN {AUDIO_NOTIFICATIONS} ELSE {})
              \cup (IF visual THEN {VISUAL_NOTIFICATIONS} ELSE {}) |->
        CASE id = NETWORK_NAME -> name
          [] id = MQTT_SERVER_PORT -> port
          [] id \in {AUDIO_NOTIFICATIONS, VISUAL_NOTIFICATIONS} -> "true"
          [] OTHER -> "smaf"]

\* Forms a user submits: complete, without a network name, with the
\* network name "Unknown", and without a port; each checkbox set or not.
Queries ==
    {Query(f[1], f[2], audio, visual) :
        f \in {<<"smaf", "1883">>, <<"", "1883">>, <<Unknown, "1883">>, <<"smaf", "">>},
        audio \in BOOLEAN, visual \in BOOLEAN}

\* accept() returned no client.
NoRequest == [path |-> "none"]

Requests ==
    {[path |-> "/"]} \cup {[path |-> "/configuration", query |-> q] : q \in Queries}

\* request.indexOf("/configuration") != -1
IsSubmission(req) == req.path = "/configuration"

\* String WiFiConfig::parseFieldValue(String data, String fieldId): the
\* value of the field, empty when the field is not in the request.
parseFieldValue(data, fieldId) ==
    IF fieldId \in DOMAIN data THEN data[fieldId] ELSE ""

\* String::toInt() of the port fields the model submits.
toInt(str) == IF str = "1883" THEN 1883 ELSE 0

\* uint16_t WiFiConfig::stringToUint16(String str)
stringToUint16(str) ==
    IF toInt(str) >= 0 /\ toInt(str) <= 65535 THEN toInt(str) ELSE 0

\* What renderConfigurationPage() saves for a submitted form: saveString
\* for seven keys, saveInt for the port, saveBool for the two checkboxes.
savedPreferences(data) ==
    [str |-> [k \in StringKeys |-> Stored(parseFieldValue(data, k))],
     port |-> Stored(stringToUint16(parseFieldValue(data, MQTT_SERVER_PORT))),
     audio |-> Stored(~isEmpty(parseFieldValue(data, AUDIO_NOTIFICATIONS))),
     visual |-> Stored(~isEmpty(parseFieldValue(data, VISUAL_NOTIFICATIONS)))]

\* What WiFiConfig::savePreferences() of the SensoryAlert sketch's
\* WiFiConfig saves: the seven strings and the port.
savePreferences(store, data) ==
    [store EXCEPT !.str = [k \in StringKeys |-> Stored(parseFieldValue(data, k))],
                  !.port = Stored(stringToUint16(parseFieldValue(data, MQTT_SERVER_PORT)))]

\* A device as flashed: no key is stored.
Fresh ==
    [str |-> [k \in StringKeys |-> Missing], port |-> Missing,
     audio |-> Missing, visual |-> Missing]

\* Preferences a device can hold at a reset: none, or a submitted form.
StoredPreferences == {Fresh} \cup {savedPreferences(q) : q \in Queries}


\* digitalRead(configurationButton): not read yet, LOW (pressed) or HIGH.
Levels == {"LOW", "HIGH"}
Unread == "unread"

\* A poll of the receiver: getPVT(), getGnssFixOk(), getLatitude() and
\* getLongitude(); the last three are read only when getPVT() returned true.
Coordinates == {-1, 0, 1}
NoPvt == [newData |-> FALSE, gnssFixOk |-> FALSE, latitude |-> 0, longitude |-> 0]
Readings ==
    {r \in [newData : BOOLEAN, gnssFixOk : BOOLEAN,
            latitude : Coordinates, longitude : Coordinates] : ~r.newData => r = NoPvt}

\* State of the RAM after a reset, before setup() runs.
Boot ==
    /\ deviceStatus = NONE
    /\ visualNotifications = FALSE
    /\ audioNotifications = FALSE
    /\ mpc = "setup"
    /\ mops = << >>
    /\ rpc = "not_created"
    /\ rops = << >>
    /\ dispatched = NoStatus
    /\ reads = 0
    /\ invoked = 0
    /\ frames = << >>
    /\ pixels = [n \in 0..(neoPixelCount - 1) |-> Off]
    /\ begun = FALSE
    /\ brightness = 0
    /\ speaker = 0
    /\ users = NoUsers
    /\ wifi = FALSE
    /\ mqtt = FALSE
    /\ melodies = << >>
    /\ notes = << >>
    /\ wdtTasks = {}
    /\ wdtAge = 0
    /\ button = Unread
    /\ pvt = NoPvt
    /\ published = << >>
    /\ subscribed = FALSE
    /\ delayed = 0
    /\ rcp = "accept"
    /\ request = NoRequest
    /\ response = FALSE

Init ==
    /\ Boot
    /\ nvs \in StoredPreferences
    /\ sketch \in Sketches
    /\ shown = [n \in 0..(neoPixelCount - 1) |-> Off]

----------------------------------------------------------------------------
(* The task watchdog (Helpers.cpp).  The setup()/loop() task is "setup",   *)
(* DeviceStatusThread is "render".                                         *)
Tasks == {"setup", "render"}

\* initWatchdog(30, true): the timeout in seconds.
WdtTimeout == 30

\* Granularity of the clock of the watchdog, in seconds.
WdtTick == 10

\* An initialisation that subscribes every task of the sketch.
initWatchdogEveryTask(task) ==
    /\ wdtTasks' = Tasks
    /\ wdtAge' = 0

\* esp_task_wdt_init(timeout, panic); esp_task_wdt_add(NULL): the calling task
\* is subscribed.
initWatchdog(task) ==
    /\ wdtTasks' = wdtTasks \cup {task}
    /\ wdtAge' = 0

\* esp_task_wdt_reset(): resets the timer on behalf of the calling task.
resetWatchdog(task) ==
    /\ wdtTasks' = wdtTasks
    /\ wdtAge' = IF task \in wdtTasks THEN 0 ELSE wdtAge

\* A suspension that leaves the task subscribed.
suspendWatchdogNoOp(task) ==
    /\ wdtTasks' = wdtTasks
    /\ wdtAge' = 0

\* esp_task_wdt_delete(NULL): the calling task is unsubscribed.
suspendWatchdog(task) ==
    /\ wdtTasks' = wdtTasks \ {task}
    /\ wdtAge' = 0

\* serverResponse / callback, called by mqtt.loop() in the loop task when a
\* message has arrived on the subscribed topic.
serverResponse(message) ==
    IF message /\ deviceStatus # MAINTENANCE_MODE
    THEN resetWatchdog("setup")
    ELSE UNCHANGED wdt

----------------------------------------------------------------------------
(* DeviceStatusThread *)

\* A thread that opens every iteration with the loading pattern.
DeviceStatusThread_forLoading ==
    /\ sketch = Vanilla
    /\ rpc \in {"for", "end"}
    /\ rpc' = "clearAll"
    /\ rops' = loadingVisualNotification
    /\ reads' = 0
    /\ invoked' = 0
    /\ frames' = << >>
    /\ UNCHANGED <<deviceStatus, visualNotifications, audioNotifications, cfg, mpc, mops,
                   dispatched, hw, netVars, played, wdt, io>>

\* for (;;): a new iteration starts with clearAllVisualNotifications().
DeviceStatusThread_for ==
    /\ sketch = Vanilla
    /\ rpc \in {"for", "end"}
    /\ rpc' = "clearAll"
    /\ rops' = clearAllVisualNotifications
    /\ reads' = 0
    /\ invoked' = 0
    /\ frames' = << >>
    /\ UNCHANGED <<deviceStatus, visualNotifications, audioNotifications, cfg, mpc, mops,
                   dispatched, hw, netVars, played, wdt, io>>

\* A thread that returns when the pattern it dispatched has been rendered.
AfterRenderCallReturning(pc) == IF pc = "clearAll" THEN "if" ELSE "returned"

\* Where the thread continues when the notifications method it is in returns.
AfterRenderCall(pc) == IF pc = "clearAll" THEN "if" ELSE "end"

\* A renderer that gives up as soon as the status differs from the one dispatched.
DeviceStatusThread_callInterruptible ==
    /\ rpc \in {"clearAll", "pattern"}
    /\ rops # << >>
    /\ Call(Head(rops), "render")
    /\ rops' = IF rpc = "pattern" /\ deviceStatus # dispatched THEN << >> ELSE Tail(rops)
    /\ rpc' = IF rops' = << >> THEN AfterRenderCall(rpc) ELSE rpc
    /\ frames' = IF Head(rops).op = "delay"
                 THEN Append(frames, Frame(shown[0], shown[1], Head(rops).a))
                 ELSE frames
    /\ UNCHANGED <<deviceStatus, visualNotifications, audioNotifications, cfg, mpc, mops,
                   dispatched, reads, invoked, netVars, played, wdt, io>>

\* The next call of the notifications method the thread is in.
DeviceStatusThread_call ==
    /\ rpc \in {"clearAll", "pattern"}
    /\ rops # << >>
    /\ Call(Head(rops), "render")
    /\ rops' = Tail(rops)
    /\ rpc' = IF Tail(rops) = << >> THEN AfterRenderCall(rpc) ELSE rpc
    /\ frames' = IF Head(rops).op = "delay"
                 THEN Append(frames, Frame(shown[0], shown[1], Head(rops).a))
                 ELSE frames
    /\ UNCHANGED <<deviceStatus, visualNotifications, audioNotifications, cfg, mpc, mops,
                   dispatched, reads, invoked, netVars, played, wdt, io>>

\* A thread that puts the status back to NONE when it finds the flag off.
DeviceStatusThread_ifResetting ==
    /\ rpc = "if"
    /\ rpc' = IF visualNotifications THEN "switch" ELSE "end"
    /\ deviceStatus' = IF visualNotifications THEN deviceStatus ELSE NONE
    /\ UNCHANGED <<visualNotifications, audioNotifications, cfg, mpc, mops,
                   rops, dispatched, reads, invoked, frames, hw, netVars, played, wdt, io>>

\* if (visualNotifications)
DeviceStatusThread_if ==
    /\ rpc = "if"
    /\ rpc' = IF visualNotifications THEN "switch" ELSE "end"
    /\ UNCHANGED <<deviceStatus, visualNotifications, audioNotifications, cfg, mpc, mops,
                   rops, dispatched, reads, invoked, frames, hw, netVars, played, wdt, io>>

\* A switch with a default label that shares the body of case NOT_READY.
DeviceStatusThread_switchDefault ==
    /\ sketch = Vanilla
    /\ rpc = "switch"
    /\ dispatched' = SwitchValue
    /\ reads' = reads + 1
    /\ rops' = IF SwitchValue \in DeviceStatusEnum
               THEN VisualNotification(SwitchValue)
               ELSE notReadyVisualNotification
    /\ invoked' = invoked + 1
    /\ rpc' = "pattern"
    /\ UNCHANGED <<deviceStatus, visualNotifications, audioNotifications, cfg, mpc, mops,
                   frames, hw, netVars, played, wdt, io>>

\* switch (deviceStatus): one read, then the renderer of the matching case.
DeviceStatusThread_switch ==
    /\ sketch = Vanilla
    /\ rpc = "switch"
    /\ dispatched' = SwitchValue
    /\ reads' = reads + 1
    /\ rops' = VisualNotification(SwitchValue)
    /\ invoked' = IF VisualNotification(SwitchValue) # << >> THEN invoked + 1 ELSE invoked
    /\ rpc' = IF VisualNotification(SwitchValue) # << >> THEN "pattern" ELSE "end"
    /\ UNCHANGED <<deviceStatus, visualNotifications, audioNotifications, cfg, mpc, mops,
                   frames, hw, netVars, played, wdt, io>>

----------------------------------------------------------------------------
(* setup() *)

xTaskCreatePinnedToCore ==
    /\ sketch = Vanilla
    /\ mpc = "setup"
    /\ rpc' = "for"
    /\ mpc' = "loadFlags"
    /\ UNCHANGED <<deviceStatus, visualNotifications, audioNotifications, cfg, mops,
                   rops, dispatched, reads, invoked, frames, hw, netVars, played, wdt, io>>

\* "Load all preferences to variables", then notifications.initializeVisualNotifications().
setup_loadFlags ==
    /\ mpc = "loadFlags"
    /\ nvs' = Loaded(nvs)
    /\ audioNotifications' = loadBool(nvs.audio)
    /\ visualNotifications' = loadBool(nvs.visual)
    /\ mpc' = "initializeVisualNotifications"
    /\ mops' = initializeVisualNotifications
    /\ UNCHANGED <<deviceStatus, sketch, page, renderVars, hw, netVars, played, wdt, io>>

\* A setup that goes back to the intro melody when it has been played.
AfterSetupCallReplay(pc) ==
    CASE pc = "initializeVisualNotifications" -> "ifIntro"
      [] pc = "introAudioNotification" -> "ifIntro"
      [] pc = "maintenanceAudioNotification" -> "renderConfigurationPage"
      [] pc = "initializeNeoPixel" -> "sa_intro"
      [] pc = "playIntroMelody" -> "sa_intro"
      [] pc = "playConfigurationMelody" -> "sa_maintenance"
      [] OTHER -> pc

\* Where setup continues when the notifications method it is in returns.
AfterSetupCall(pc) ==
    CASE pc = "initializeVisualNotifications" -> "ifIntro"
      [] pc = "introAudioNotification" -> "loadPreferences"
      [] pc = "maintenanceAudioNotification" -> "renderConfigurationPage"
      [] pc = "initializeNeoPixel" -> "sa_intro"
      [] pc = "playIntroMelody" -> "sa_loadPreferences"
      [] pc = "playConfigurationMelody" -> "sa_maintenance"
      [] OTHER -> pc

\* The next call of the notifications method setup is in.
setup_call ==
    /\ mpc \in {"initializeVisualNotifications", "introAudioNotification",
                "maintenanceAudioNotification",
                "initializeNeoPixel", "playIntroMelody", "playConfigurationMelody"}
    /\ mops # << >>
    /\ Call(Head(mops), "setup")
    /\ mops' = Tail(mops)
    /\ mpc' = IF Tail(mops) = << >> THEN AfterSetupCall(mpc) ELSE mpc
    /\ notes' = IF Head(mops).op = "delay"
                THEN Append(notes, Note(speaker, Head(mops).a))
                ELSE notes
    /\ UNCHANGED <<deviceStatus, visualNotifications, audioNotifications, cfg,
                   renderVars, netVars, melodies, wdt, io>>

\* A setup that plays the intro melody whatever the preference.
setup_ifIntroAlways ==
    /\ mpc = "ifIntro"
    /\ mpc' = "introAudioNotification"
    /\ mops' = introAudioNotification
    /\ melodies' = Append(melodies, "introAudioNotification")
    /\ UNCHANGED <<deviceStatus, visualNotifications, audioNotifications, cfg,
                   renderVars, hw, netVars, notes, wdt, io>>

\* if (audioNotifications) notifications.introAudioNotification();
setup_ifIntro ==
    /\ mpc = "ifIntro"
    /\ IF audioNotifications
       THEN /\ mpc' = "introAudioNotification"
            /\ mops' = introAudioNotification
            /\ melodies' = Append(melodies, "introAudioNotification")
       ELSE /\ mpc' = "loadPreferences"
            /\ mops' = mops
            /\ melodies' = melodies
    /\ UNCHANGED <<deviceStatus, visualNotifications, audioNotifications, cfg,
                   renderVars, hw, netVars, notes, wdt, io>>

\* A setup that looks at the button only.
setup_ifMaintenanceButtonOnly ==
    /\ mpc = "loadPreferences"
    /\ \E level \in Levels :
          /\ button' = level
          /\ mpc' = IF level = "LOW" THEN "startConfiguration" ELSE "setNotReady"
    /\ UNCHANGED <<deviceStatus, visualNotifications, audioNotifications, cfg, mops,
                   renderVars, hw, netVars, played, wdt, pvt, published, subscribed, delayed>>

\* delay(1600); isConfigurationValid = configuration.loadPreferences();
\* if ((digitalRead(configurationurationButton) == LOW) || (!isConfigurationValid))
setup_ifMaintenance ==
    /\ mpc = "loadPreferences"
    /\ \E level \in Levels :
          /\ button' = level
          /\ mpc' = IF level = "LOW" \/ ~loadPreferences(nvs)
                    THEN "startConfiguration"
                    ELSE "setNotReady"
    /\ UNCHANGED <<deviceStatus, visualNotifications, audioNotifications, cfg, mops,
                   renderVars, hw, netVars, played, wdt, pvt, published, subscribed, delayed>>

\* configuration.startConfiguration(); deviceStatus = MAINTENANCE_MODE;
setup_maintenance ==
    /\ mpc = "startConfiguration"
    /\ deviceStatus' = MAINTENANCE_MODE
    /\ mpc' = "ifMaintenanceAudio"
    /\ UNCHANGED <<visualNotifications, audioNotifications, cfg, mops,
                   renderVars, hw, netVars, played, wdt, io>>

\* if (audioNotifications) notifications.maintenanceAudioNotification();
setup_ifMaintenanceAudio ==
    /\ mpc = "ifMaintenanceAudio"
    /\ IF audioNotifications
       THEN /\ mpc' = "maintenanceAudioNotification"
            /\ mops' = maintenanceAudioNotification
            /\ melodies' = Append(melodies, "maintenanceAudioNotification")
       ELSE /\ mpc' = "renderConfigurationPage"
            /\ mops' = mops
            /\ melodies' = melodies
    /\ UNCHANGED <<deviceStatus, visualNotifications, audioNotifications, cfg,
                   renderVars, hw, netVars, notes, wdt, io>>

\* A restart after which deviceStatus keeps its value.
RestartKeepingStatus(saved) ==
    /\ deviceStatus' = deviceStatus
    /\ visualNotifications' = FALSE
    /\ audioNotifications' = FALSE
    /\ nvs' = saved
    /\ sketch' = sketch
    /\ mpc' = "setup"
    /\ mops' = << >>
    /\ rpc' = "not_created"
    /\ rops' = << >>
    /\ dispatched' = NoStatus
    /\ reads' = 0
    /\ invoked' = 0
    /\ frames' = << >>
    /\ pixels' = [n \in 0..(neoPixelCount - 1) |-> Off]
    /\ begun' = FALSE
    /\ brightness' = 0
    /\ speaker' = 0
    /\ users' = NoUsers
    /\ wifi' = FALSE
    /\ mqtt' = FALSE
    /\ melodies' = << >>
    /\ notes' = << >>
    /\ wdtTasks' = {}
    /\ wdtAge' = 0
    /\ button' = Unread
    /\ pvt' = NoPvt
    /\ published' = << >>
    /\ subscribed' = FALSE
    /\ delayed' = 0
    /\ rcp' = "accept"
    /\ request' = NoRequest
    /\ response' = FALSE
    /\ UNCHANGED shown

\* ESP.restart(): the RAM is initialised again, the preferences and the
\* colours latched by the LEDs survive.
Restart(saved) ==
    /\ deviceStatus' = NONE
    /\ visualNotifications' = FALSE
    /\ audioNotifications' = FALSE
    /\ nvs' = saved
    /\ sketch' = sketch
    /\ mpc' = "setup"
    /\ mops' = << >>
    /\ rpc' = "not_created"
    /\ rops' = << >>
    /\ dispatched' = NoStatus
    /\ reads' = 0
    /\ invoked' = 0
    /\ frames' = << >>
    /\ pixels' = [n \in 0..(neoPixelCount - 1) |-> Off]
    /\ begun' = FALSE
    /\ brightness' = 0
    /\ speaker' = 0
    /\ users' = NoUsers
    /\ wifi' = FALSE
    /\ mqtt' = FALSE
    /\ melodies' = << >>
    /\ notes' = << >>
    /\ wdtTasks' = {}
    /\ wdtAge' = 0
    /\ button' = Unread
    /\ pvt' = NoPvt
    /\ published' = << >>
    /\ subscribed' = FALSE
    /\ delayed' = 0
    /\ rcp' = "accept"
    /\ request' = NoRequest
    /\ response' = FALSE
    /\ UNCHANGED shown

\* The page is served once and setup() returns.
MaintenanceLoopOnce == FALSE

\* while (true) of the maintenance branch of setup.
MaintenanceLoopCondition == TRUE

\* while (true) { configuration.renderConfigurationPage(); }
\* WiFiClient client = _configServerInstance.accept(); if (!client) return;
\* while (!client.available()) delay(10); request = client.readStringUntil('\r');
renderConfigurationPage ==
    /\ mpc = "renderConfigurationPage"
    /\ rcp = "accept"
    /\ IF MaintenanceLoopCondition
       THEN /\ \E line \in {NoRequest} \cup Requests :
                  /\ request' = line
                  /\ rcp' = IF line = NoRequest THEN "accept" ELSE "println"
            /\ UNCHANGED <<deviceStatus, visualNotifications, audioNotifications, sketch, nvs,
                           response, mpc, mops, renderVars, hw, netVars, played, wdt, io>>
       ELSE /\ mpc' = "connectToNetwork"
            /\ UNCHANGED <<deviceStatus, visualNotifications, audioNotifications, cfg, mops,
                           renderVars, hw, netVars, played, wdt, io>>

\* client.println("HTTP/1.1 200 OK"); ... client.println(html);
renderConfigurationPage_println ==
    /\ mpc = "renderConfigurationPage"
    /\ rcp = "println"
    /\ response' = TRUE
    /\ rcp' = "if"
    /\ UNCHANGED <<deviceStatus, visualNotifications, audioNotifications, sketch, nvs,
                   request, mpc, mops, renderVars, hw, netVars, played, wdt, io>>

\* A handler that saves a checkbox only when the form has its field.
renderConfigurationPage_ifCheckboxKept ==
    /\ mpc = "renderConfigurationPage"
    /\ rcp = "if"
    /\ IF IsSubmission(request)
       THEN /\ nvs' = [savedPreferences(request.query) EXCEPT
                          !.audio = IF AUDIO_NOTIFICATIONS \in DOMAIN request.query
                                    THEN Stored(TRUE) ELSE nvs.audio]
            /\ rcp' = "delay"
            /\ UNCHANGED <<request, response>>
       ELSE /\ nvs' = nvs
            /\ rcp' = "accept"
            /\ request' = NoRequest
            /\ response' = FALSE
    /\ UNCHANGED <<deviceStatus, visualNotifications, audioNotifications, sketch,
                   mpc, mops, renderVars, hw, netVars, played, wdt, io>>

\* if (request.indexOf("/configuration") != -1) { saveString(...); ... saveBool(...); }
\* Otherwise the call returns and the client is closed.
renderConfigurationPage_if ==
    /\ mpc = "renderConfigurationPage"
    /\ rcp = "if"
    /\ IF IsSubmission(request)
       THEN /\ nvs' = savedPreferences(request.query)
            /\ rcp' = "delay"
            /\ UNCHANGED <<request, response>>
       ELSE /\ nvs' = nvs
            /\ rcp' = "accept"
            /\ request' = NoRequest
            /\ response' = FALSE
    /\ UNCHANGED <<deviceStatus, visualNotifications, audioNotifications, sketch,
                   mpc, mops, renderVars, hw, netVars, played, wdt, io>>

\* delay(2400); ESP.restart();
renderConfigurationPage_restart ==
    /\ mpc = "renderConfigurationPage"
    /\ rcp = "delay"
    /\ Restart(nvs)

\* A setup that leaves the boot value on its else branch.
setup_notReadyOmitted ==
    /\ mpc = "setNotReady"
    /\ deviceStatus' = deviceStatus
    /\ mpc' = "gnssBegin"
    /\ UNCHANGED <<visualNotifications, audioNotifications, cfg, mops,
                   renderVars, hw, netVars, played, wdt, io>>

\* deviceStatus = NOT_READY;
setup_notReady ==
    /\ mpc = "setNotReady"
    /\ deviceStatus' = NOT_READY
    /\ mpc' = "gnssBegin"
    /\ UNCHANGED <<visualNotifications, audioNotifications, cfg, mops,
                   renderVars, hw, netVars, played, wdt, io>>

\* while (!gnss.begin()) { delay(800); }  ...  initWatchdog(30, true);
setup_gnssBegin ==
    /\ mpc = "gnssBegin"
    /\ \E detected \in BOOLEAN :
          IF detected
          THEN mpc' = "connectToNetwork" /\ initWatchdog("setup")
          ELSE mpc' = mpc /\ UNCHANGED wdt
    /\ UNCHANGED <<deviceStatus, visualNotifications, audioNotifications, cfg, mops,
                   renderVars, hw, netVars, played, io>>

----------------------------------------------------------------------------
(* loop() *)

\* delay(6400) of connectToNetwork and delay(4000) of connectToMqttBroker.
wifiRetryDelay == 6400
mqttRetryDelay == 4000

\* A connectToNetwork that keeps READY_TO_SEND until the pattern has been shown.
connectToNetworkValidating ==
    /\ mpc = "connectToNetwork"
    /\ pvt' = NoPvt
    /\ published' = << >>
    /\ IF ~wifi
       THEN /\ deviceStatus' = IF deviceStatus = READY_TO_SEND /\ rpc = "pattern"
                               THEN deviceStatus
                               ELSE NOT_READY
            /\ mpc' = "connectToNetwork_while"
       ELSE deviceStatus' = deviceStatus /\ mpc' = "connectToMqttBroker"
    /\ UNCHANGED <<visualNotifications, audioNotifications, cfg, mops,
                   renderVars, hw, netVars, played, wdt, button, subscribed, delayed>>

\* if (WiFi.status() != WL_CONNECTED) { deviceStatus = NOT_READY; ...
connectToNetwork ==
    /\ mpc = "connectToNetwork"
    /\ pvt' = NoPvt
    /\ published' = << >>
    /\ IF ~wifi
       THEN deviceStatus' = NOT_READY /\ mpc' = "connectToNetwork_while"
       ELSE deviceStatus' = deviceStatus /\ mpc' = "connectToMqttBroker"
    /\ UNCHANGED <<visualNotifications, audioNotifications, cfg, mops,
                   renderVars, hw, netVars, played, wdt, button, subscribed, delayed>>

\* A retry loop that resets the watchdog on every pass.
connectToNetwork_whileResetting ==
    /\ mpc = "connectToNetwork_while"
    /\ IF ~wifi
       THEN /\ resetWatchdog("setup")
            /\ mpc' = "connectToNetwork_delay"
            /\ delayed' = wifiRetryDelay
       ELSE /\ UNCHANGED wdt
            /\ mpc' = "connectToMqttBroker"
            /\ delayed' = delayed
    /\ UNCHANGED <<deviceStatus, visualNotifications, audioNotifications, cfg, mops,
                   renderVars, hw, netVars, played, button, pvt, published, subscribed>>

\* while (WiFi.status() != WL_CONNECTED) { WiFi.begin(...); delay(6400); }
connectToNetwork_while ==
    /\ mpc = "connectToNetwork_while"
    /\ IF ~wifi
       THEN mpc' = "connectToNetwork_delay" /\ delayed' = wifiRetryDelay
       ELSE mpc' = "connectToMqttBroker" /\ delayed' = delayed
    /\ UNCHANGED <<deviceStatus, visualNotifications, audioNotifications, cfg, mops,
                   renderVars, hw, netVars, played, wdt, button, pvt, published, subscribed>>

\* A connectToNetwork that gives up after one wait.
connectToNetwork_delayGivingUp ==
    /\ mpc = "connectToNetwork_delay"
    /\ wifi' \in {wifi, TRUE}
    /\ delayed' = 0
    /\ mpc' = "connectToMqttBroker"
    /\ UNCHANGED <<deviceStatus, visualNotifications, audioNotifications, cfg, mops,
                   renderVars, hw, mqtt, played, wdt, button, pvt, published, subscribed>>

\* delay(6400) returns; the station may have associated in the meantime.
connectToNetwork_delay ==
    /\ mpc = "connectToNetwork_delay"
    /\ wifi' \in {wifi, TRUE}
    /\ delayed' = 0
    /\ mpc' = "connectToNetwork_while"
    /\ UNCHANGED <<deviceStatus, visualNotifications, audioNotifications, cfg, mops,
                   renderVars, hw, mqtt, played, wdt, button, pvt, published, subscribed>>

\* if (!mqtt.connected()) { deviceStatus = NOT_READY; ...
connectToMqttBroker ==
    /\ mpc = "connectToMqttBroker"
    /\ IF ~mqtt
       THEN deviceStatus' = NOT_READY /\ mpc' = "connectToMqttBroker_while"
       ELSE deviceStatus' = deviceStatus /\ mpc' = "getPVT"
    /\ UNCHANGED <<visualNotifications, audioNotifications, cfg, mops,
                   renderVars, hw, netVars, played, wdt, io>>

\* A retry loop that stores READY_TO_SEND when the broker accepts the client.
connectToMqttBroker_whileReadyToSend ==
    /\ mpc = "connectToMqttBroker_while"
    /\ IF ~mqtt
       THEN \E connected \in {c \in BOOLEAN : c => wifi} :
               /\ mqtt' = connected
               /\ subscribed' = IF connected THEN TRUE ELSE subscribed
               /\ deviceStatus' = IF connected THEN READY_TO_SEND ELSE deviceStatus
               /\ mpc' = IF connected THEN mpc ELSE "connectToMqttBroker_delay"
               /\ delayed' = IF connected THEN delayed ELSE mqttRetryDelay
       ELSE /\ mqtt' = mqtt
            /\ subscribed' = subscribed
            /\ deviceStatus' = deviceStatus
            /\ mpc' = "getPVT"
            /\ delayed' = delayed
    /\ UNCHANGED <<visualNotifications, audioNotifications, cfg, mops,
                   renderVars, hw, wifi, played, wdt, button, pvt, published>>

\* while (!mqtt.connected()) { if (mqtt.connect(...)) { mqtt.subscribe(mqttTopic);
\*   deviceStatus = WAITING_GNSS; } else { delay(4000); } }
connectToMqttBroker_while ==
    /\ mpc = "connectToMqttBroker_while"
    /\ IF ~mqtt
       THEN \E connected \in {c \in BOOLEAN : c => wifi} :
               /\ mqtt' = connected
               /\ subscribed' = IF connected THEN TRUE ELSE subscribed
               /\ deviceStatus' = IF connected THEN WAITING_GNSS ELSE deviceStatus
               /\ mpc' = IF connected THEN mpc ELSE "connectToMqttBroker_delay"
               /\ delayed' = IF connected THEN delayed ELSE mqttRetryDelay
       ELSE /\ mqtt' = mqtt
            /\ subscribed' = subscribed
            /\ deviceStatus' = deviceStatus
            /\ mpc' = "getPVT"
            /\ delayed' = delayed
    /\ UNCHANGED <<visualNotifications, audioNotifications, cfg, mops,
                   renderVars, hw, wifi, played, wdt, button, pvt, published>>

\* delay(4000) returns.
connectToMqttBroker_delay ==
    /\ mpc = "connectToMqttBroker_delay"
    /\ delayed' = 0
    /\ mpc' = "connectToMqttBroker_while"
    /\ UNCHANGED <<deviceStatus, visualNotifications, audioNotifications, cfg, mops,
                   renderVars, hw, netVars, played, wdt, button, pvt, published, subscribed>>

\* A loop that publishes every new reading before it looks at the fix.
loop_getPVTPublishingFirst ==
    /\ mpc = "getPVT"
    /\ \E reading \in Readings :
          /\ pvt' = reading
          /\ IF reading.newData
             THEN /\ published' = Append(published, deviceStatus)
                  /\ deviceStatus' =
                        IF reading.gnssFixOk /\ reading.latitude # 0 /\ reading.longitude # 0
                        THEN READY_TO_SEND
                        ELSE WAITING_GNSS
             ELSE /\ deviceStatus' = deviceStatus
                  /\ published' = published
    /\ mpc' = "mqttLoop"
    /\ UNCHANGED <<visualNotifications, audioNotifications, cfg, mops,
                   renderVars, hw, netVars, played, wdt, button, subscribed, delayed>>

\* if (gnss.getPVT() == true) { if (gnssFixOk && latitude != 0 && longitude != 0)
\*   { deviceStatus = READY_TO_SEND; mqtt.publish(...); } else { deviceStatus = WAITING_GNSS; } }
loop_getPVT ==
    /\ mpc = "getPVT"
    /\ \E reading \in Readings :
          /\ pvt' = reading
          /\ IF reading.newData
             THEN IF reading.gnssFixOk /\ reading.latitude # 0 /\ reading.longitude # 0
                  THEN /\ deviceStatus' = READY_TO_SEND
                       /\ published' = Append(published, deviceStatus')
                  ELSE /\ deviceStatus' = WAITING_GNSS
                       /\ published' = published
             ELSE /\ deviceStatus' = deviceStatus
                  /\ published' = published
    /\ mpc' = "mqttLoop"
    /\ UNCHANGED <<visualNotifications, audioNotifications, cfg, mops,
                   renderVars, hw, netVars, played, wdt, button, subscribed, delayed>>

\* mqtt.loop(): a message that has arrived on the subscribed topic is handed
\* to serverResponse.
loop_mqttLoop ==
    /\ mpc = "mqttLoop"
    /\ mpc' = "connectToNetwork"
    /\ \E message \in {m \in BOOLEAN : m => mqtt /\ subscribed} : serverResponse(message)
    /\ UNCHANGED <<deviceStatus, visualNotifications, audioNotifications, cfg, mops,
                   renderVars, hw, netVars, played, io>>

\* The network drops the Wi-Fi link (and the broker connection with it) or
\* the broker connection alone.
Disconnect ==
    /\ mqtt \/ wifi
    /\ \E w \in {FALSE, wifi} :
          /\ wifi' = w
          /\ mqtt' = FALSE
          /\ <<wifi', mqtt'>> # <<wifi, mqtt>>
    /\ subscribed' = FALSE
    /\ UNCHANGED <<deviceStatus, visualNotifications, audioNotifications, cfg, mpc, mops,
                   renderVars, hw, played, wdt, button, pvt, published, delayed>>

----------------------------------------------------------------------------
(* The sketch built on SensoryAlert: DeviceStatusThread, setup() and loop(). *)

\* while (true): the next iteration goes straight to the switch.
sa_DeviceStatusThread_while ==
    /\ sketch = Sensory
    /\ rpc \in {"for", "end"}
    /\ rpc' = "switch"
    /\ rops' = << >>
    /\ reads' = 0
    /\ invoked' = 0
    /\ frames' = << >>
    /\ UNCHANGED <<deviceStatus, visualNotifications, audioNotifications, cfg, mpc, mops,
                   dispatched, hw, netVars, played, wdt, io>>

\* switch (deviceStatus)
sa_DeviceStatusThread_switch ==
    /\ sketch = Sensory
    /\ rpc = "switch"
    /\ dispatched' = SwitchValue
    /\ reads' = reads + 1
    /\ rops' = SensoryDisplay(SwitchValue)
    /\ invoked' = IF SensoryDisplay(SwitchValue) # << >> THEN invoked + 1 ELSE invoked
    /\ rpc' = IF SensoryDisplay(SwitchValue) # << >> THEN "pattern" ELSE "end"
    /\ UNCHANGED <<deviceStatus, visualNotifications, audioNotifications, cfg, mpc, mops,
                   frames, hw, netVars, played, wdt, io>>

\* xTaskCreatePinnedToCore(DeviceStatusThread, ...); ... sensoryAlert.initializeNeoPixel();
sa_xTaskCreatePinnedToCore ==
    /\ sketch = Sensory
    /\ mpc = "setup"
    /\ rpc' = "for"
    /\ mpc' = "initializeNeoPixel"
    /\ mops' = initializeNeoPixel
    /\ UNCHANGED <<deviceStatus, visualNotifications, audioNotifications, cfg,
                   rops, dispatched, reads, invoked, frames, hw, netVars, played, wdt, io>>

\* sensoryAlert.playIntroMelody();
sa_setup_intro ==
    /\ mpc = "sa_intro"
    /\ mpc' = "playIntroMelody"
    /\ mops' = playIntroMelody
    /\ melodies' = Append(melodies, "playIntroMelody")
    /\ UNCHANGED <<deviceStatus, visualNotifications, audioNotifications, cfg,
                   renderVars, hw, netVars, notes, wdt, io>>

\* delay(2400); initWatchdog(30, true); config.loadPreferences();
\* if ((digitalRead(configurationButton) == LOW) || (!config.isConfigValid()))
\*   sensoryAlert.playConfigurationMelody();
\* else resetWatchdog();
sa_setup_ifMaintenance ==
    /\ mpc = "sa_loadPreferences"
    /\ initWatchdog("setup")
    /\ \E level \in Levels :
          /\ button' = level
          /\ IF level = "LOW" \/ ~isConfigValid(nvs)
             THEN /\ mpc' = "playConfigurationMelody"
                  /\ mops' = playConfigurationMelody
                  /\ melodies' = Append(melodies, "playConfigurationMelody")
             ELSE /\ mpc' = "sa_loop"
                  /\ mops' = mops
                  /\ melodies' = melodies
    /\ UNCHANGED <<deviceStatus, visualNotifications, audioNotifications, cfg,
                   renderVars, hw, netVars, notes, pvt, published, subscribed, delayed>>

\* deviceStatus = MAINTENANCE_MODE;
sa_setup_maintenance ==
    /\ mpc = "sa_maintenance"
    /\ deviceStatus' = MAINTENANCE_MODE
    /\ mpc' = "sa_startConfig"
    /\ UNCHANGED <<visualNotifications, audioNotifications, cfg, mops,
                   renderVars, hw, netVars, played, wdt, io>>

\* config.startConfig(); suspendWatchdog();
sa_setup_suspendWatchdog ==
    /\ mpc = "sa_startConfig"
    /\ suspendWatchdog("setup")
    /\ mpc' = "sa_loop"
    /\ UNCHANGED <<deviceStatus, visualNotifications, audioNotifications, cfg, mops,
                   renderVars, hw, netVars, played, io>>

\* WiFiConfig::renderConfigPage() of this sketch: no client, or a request
\* that is answered with the page; a form submission is saved first
\* (savePreferences()) and the device is not restarted.
renderConfigPage ==
    /\ \E line \in {NoRequest} \cup Requests :
          nvs' = IF IsSubmission(line) THEN savePreferences(nvs, line.query) ELSE nvs
    /\ UNCHANGED <<deviceStatus, visualNotifications, audioNotifications, sketch, page,
                   mpc, mops, renderVars, hw, netVars, played, wdt, io>>

\* while (deviceStatus == MAINTENANCE_MODE) { config.renderConfigPage(); delay(10); }
sa_loop_while ==
    /\ mpc = "sa_loop"
    /\ IF deviceStatus = MAINTENANCE_MODE
       THEN renderConfigPage
       ELSE /\ mpc' = "sa_connectToNetwork"
            /\ published' = << >>
            /\ UNCHANGED <<deviceStatus, visualNotifications, audioNotifications, cfg, mops,
                           renderVars, hw, netVars, played, wdt,
                           button, pvt, subscribed, delayed>>

sa_connectToNetwork ==
    /\ mpc = "sa_connectToNetwork"
    /\ IF ~wifi
       THEN deviceStatus' = NOT_READY /\ mpc' = "sa_connectToNetwork_while"
       ELSE deviceStatus' = deviceStatus /\ mpc' = "sa_connectToMqttBroker"
    /\ UNCHANGED <<visualNotifications, audioNotifications, cfg, mops,
                   renderVars, hw, netVars, played, wdt, io>>

\* while (WiFi.status() != WL_CONNECTED) { resetWatchdog(); WiFi.begin(...); delay(6400); }
sa_connectToNetwork_while ==
    /\ mpc = "sa_connectToNetwork_while"
    /\ IF ~wifi
       THEN /\ resetWatchdog("setup")
            /\ mpc' = "sa_connectToNetwork_delay"
            /\ delayed' = wifiRetryDelay
       ELSE /\ UNCHANGED wdt
            /\ mpc' = "sa_connectToMqttBroker"
            /\ delayed' = delayed
    /\ UNCHANGED <<deviceStatus, visualNotifications, audioNotifications, cfg, mops,
                   renderVars, hw, netVars, played, button, pvt, published, subscribed>>

\* delay(6400) returns; the station may have associated in the meantime.
sa_connectToNetwork_delay ==
    /\ mpc = "sa_connectToNetwork_delay"
    /\ wifi' \in {wifi, TRUE}
    /\ delayed' = 0
    /\ mpc' = "sa_connectToNetwork_while"
    /\ UNCHANGED <<deviceStatus, visualNotifications, audioNotifications, cfg, mops,
                   renderVars, hw, mqtt, played, wdt, button, pvt, published, subscribed>>

sa_connectToMqttBroker ==
    /\ mpc = "sa_connectToMqttBroker"
    /\ IF ~mqtt
       THEN deviceStatus' = NOT_READY /\ mpc' = "sa_connectToMqttBroker_while"
       ELSE deviceStatus' = deviceStatus /\ mpc' = "sa_publish"
    /\ UNCHANGED <<visualNotifications, audioNotifications, cfg, mops,
                   renderVars, hw, netVars, played, wdt, io>>

\* while (!mqtt.connected()) { resetWatchdog(); if (mqtt.connect(...)) {
\*   mqtt.subscribe(config.getMqttTopic()); deviceStatus = READY_TO_SEND; } else { delay(4000); } }
sa_connectToMqttBroker_while ==
    /\ mpc = "sa_connectToMqttBroker_while"
    /\ IF ~mqtt
       THEN /\ resetWatchdog("setup")
            /\ \E connected \in {c \in BOOLEAN : c => wifi} :
                  /\ mqtt' = connected
                  /\ subscribed' = IF connected THEN TRUE ELSE subscribed
                  /\ deviceStatus' = IF connected THEN READY_TO_SEND ELSE deviceStatus
                  /\ mpc' = IF connected THEN mpc ELSE "sa_connectToMqttBroker_delay"
                  /\ delayed' = IF connected THEN delayed ELSE mqttRetryDelay
       ELSE /\ UNCHANGED wdt
            /\ mqtt' = mqtt
            /\ subscribed' = subscribed
            /\ deviceStatus' = deviceStatus
            /\ mpc' = "sa_publish"
            /\ delayed' = delayed
    /\ UNCHANGED <<visualNotifications, audioNotifications, cfg, mops,
                   renderVars, hw, wifi, played, button, pvt, published>>

\* delay(4000) returns.
sa_connectToMqttBroker_delay ==
    /\ mpc = "sa_connectToMqttBroker_delay"
    /\ delayed' = 0
    /\ mpc' = "sa_connectToMqttBroker_while"
    /\ UNCHANGED <<deviceStatus, visualNotifications, audioNotifications, cfg, mops,
                   renderVars, hw, netVars, played, wdt, button, pvt, published, subscribed>>

\* mqtt.publish(...); delay(2000); mqtt.loop();
sa_loop_publish ==
    /\ mpc = "sa_publish"
    /\ mpc' = "sa_loop"
    /\ published' = Append(published, deviceStatus)
    /\ \E message \in {m \in BOOLEAN : m => mqtt /\ subscribed} : serverResponse(message)
    /\ UNCHANGED <<deviceStatus, visualNotifications, audioNotifications, cfg, mops,
                   renderVars, hw, netVars, played, button, pvt, subscribed, delayed>>

----------------------------------------------------------------------------
(* The task watchdog's timer. *)

\* Positions of loop(): its statements call the network and the sensors and
\* may block for any length of time.
LoopPositions ==
    {"connectToNetwork", "connectToNetwork_while", "connectToNetwork_delay",
     "connectToMqttBroker", "connectToMqttBroker_while", "connectToMqttBroker_delay",
     "getPVT", "mqttLoop",
     "sa_loop", "sa_connectToNetwork", "sa_connectToNetwork_while",
     "sa_connectToNetwork_delay", "sa_connectToMqttBroker",
     "sa_connectToMqttBroker_while", "sa_connectToMqttBroker_delay", "sa_publish"}

\* Time passes without a reset of the watchdog by the subscribed task.
Tick ==
    /\ wdtTasks # {}
    /\ wdtAge < WdtTimeout
    /\ mpc \in LoopPositions
    /\ wdtAge' = wdtAge + WdtTick
    /\ UNCHANGED <<deviceStatus, visualNotifications, audioNotifications, cfg, mpc, mops,
                   renderVars, hw, netVars, played, wdtTasks, io>>

\* The timeout expires with panic set: the device is reset.
WatchdogTimeout ==
    /\ wdtTasks # {}
    /\ wdtAge >= WdtTimeout
    /\ Restart(nvs)

----------------------------------------------------------------------------
\* The steps of the indicator task.
DeviceStatusThread ==
    \/ DeviceStatusThread_for
    \/ DeviceStatusThread_call
    \/ DeviceStatusThread_if
    \/ DeviceStatusThread_switch
    \/ sa_DeviceStatusThread_while
    \/ sa_DeviceStatusThread_switch

\* The straight-line part of setup(): it contains no wait on the environment.
SetupBoot ==
    \/ xTaskCreatePinnedToCore
    \/ setup_loadFlags
    \/ setup_call
    \/ setup_ifIntro
    \/ setup_ifMaintenance
    \/ setup_maintenance
    \/ setup_ifMaintenanceAudio
    \/ setup_notReady
    \/ sa_xTaskCreatePinnedToCore
    \/ sa_setup_intro
    \/ sa_setup_ifMaintenance
    \/ sa_setup_maintenance
    \/ sa_setup_suspendWatchdog

Next ==
    \/ DeviceStatusThread_for
    \/ DeviceStatusThread_call
    \/ DeviceStatusThread_if
    \/ DeviceStatusThread_switch
    \/ xTaskCreatePinnedToCore
    \/ setup_loadFlags
    \/ setup_call
    \/ setup_ifIntro
    \/ setup_ifMaintenance
    \/ setup_maintenance
    \/ setup_ifMaintenanceAudio
    \/ renderConfigurationPage
    \/ renderConfigurationPage_println
    \/ renderConfigurationPage_if
    \/ renderConfigurationPage_restart
    \/ setup_notReady
    \/ setup_gnssBegin
    \/ connectToNetwork
    \/ connectToNetwork_while
    \/ connectToNetwork_delay
    \/ connectToMqttBroker
    \/ connectToMqttBroker_while
    \/ connectToMqttBroker_delay
    \/ loop_getPVT
    \/ loop_mqttLoop
    \/ Disconnect
    \/ sa_DeviceStatusThread_while
    \/ sa_DeviceStatusThread_switch
    \/ sa_xTaskCreatePinnedToCore
    \/ sa_setup_intro
    \/ sa_setup_ifMaintenance
    \/ sa_setup_maintenance
    \/ sa_setup_suspendWatchdog
    \/ sa_loop_while
    \/ sa_connectToNetwork
    \/ sa_connectToNetwork_while
    \/ sa_connectToNetwork_delay
    \/ sa_connectToMqttBroker
    \/ sa_connectToMqttBroker_while
    \/ sa_connectToMqttBroker_delay
    \/ sa_loop_publish
    \/ Tick
    \/ WatchdogTimeout

Spec == Init /\ [][Next]_vars

\* The statements of the setup()/loop() task.
MainTask ==
    \/ xTaskCreatePinnedToCore
    \/ setup_loadFlags
    \/ setup_call
    \/ setup_ifIntro
    \/ setup_ifMaintenance
    \/ setup_maintenance
    \/ setup_ifMaintenanceAudio
    \/ renderConfigurationPage
    \/ renderConfigurationPage_println
    \/ renderConfigurationPage_if
    \/ renderConfigurationPage_restart
    \/ setup_notReady
    \/ setup_gnssBegin
    \/ connectToNetwork
    \/ connectToNetwork_while
    \/ connectToNetwork_delay
    \/ connectToMqttBroker
    \/ connectToMqttBroker_while
    \/ connectToMqttBroker_delay
    \/ loop_getPVT
    \/ loop_mqttLoop
    \/ sa_xTaskCreatePinnedToCore
    \/ sa_setup_intro
    \/ sa_setup_ifMaintenance
    \/ sa_setup_maintenance
    \/ sa_setup_suspendWatchdog
    \/ sa_loop_while
    \/ sa_connectToNetwork
    \/ sa_connectToNetwork_while
    \/ sa_connectToNetwork_delay
    \/ sa_connectToMqttBroker
    \/ sa_connectToMqttBroker_while
    \/ sa_connectToMqttBroker_delay
    \/ sa_loop_publish

\* Only DeviceStatusThread is scheduled fairly: setup()/loop() may stop at
\* any of its statements for ever.
RenderFairSpec == Spec /\ WF_vars(DeviceStatusThread)

\* DeviceStatusThread is a task of its own that only calls the strip and
\* delay(); the straight-line part of setup() waits for nothing.
FairSpec == Spec /\ WF_vars(DeviceStatusThread) /\ WF_vars(SetupBoot)

----------------------------------------------------------------------------
TypeOK ==
    /\ deviceStatus \in DeviceStatusEnum
    /\ visualNotifications \in BOOLEAN
    /\ audioNotifications \in BOOLEAN
    /\ nvs \in Preferences
    /\ dispatched \in DeviceStatusEnum \cup {NoStatus}
    /\ reads \in 0..1
    /\ invoked \in 0..1
    /\ begun \in BOOLEAN
    /\ wifi \in BOOLEAN
    /\ mqtt \in BOOLEAN
    /\ button \in Levels \cup {Unread}
    /\ pvt \in Readings
    /\ subscribed \in BOOLEAN
    /\ delayed \in {0, wifiRetryDelay, mqttRetryDelay}
    /\ rcp \in {"accept", "println", "if", "delay"}
    /\ request \in {NoRequest} \cup Requests
    /\ response \in BOOLEAN

----------------------------------------------------------------------------
(* Helpers of the properties. *)

\* The visualNotifications flag lets the thread reach its switch; the sketch
\* built on SensoryAlert has no such flag.
VisualEnabled == sketch = Sensory \/ visualNotifications

\* The renderer the switch of the flashed sketch selects.
Renderer(status) ==
    IF sketch = Vanilla THEN VisualNotification(status) ELSE SensoryDisplay(status)

RECURSIVE FramesFrom(_, _, _)
FramesFrom(ops, px, sh) ==
    IF ops = << >>
    THEN << >>
    ELSE (IF Head(ops).op = "delay" THEN << Frame(sh[0], sh[1], Head(ops).a) >> ELSE << >>)
         \o FramesFrom(Tail(ops), PixelsAfter(Head(ops), px), ShownAfter(Head(ops), px, sh))

AllOff == [n \in 0..(neoPixelCount - 1) |-> Off]

\* The frames a sequence of calls displays on a cleared strip.
FramesOf(ops) == FramesFrom(ops, AllOff, AllOff)

RECURSIVE Elapsed(_)
Elapsed(fs) == IF fs = << >> THEN 0 ELSE Head(fs).ms + Elapsed(Tail(fs))

\* The device restarts in this step.
Restarting == mpc' = "setup" /\ mpc # "setup"

----------------------------------------------------------------------------
\* The render task exists: the device has not just been reset.
Created == rpc # "not_created"

(* C1: if the status writes stop with value s (a reset of the device       *)
(* stores NONE again and is a write), the render loop eventually           *)
(* dispatches the pattern of s and from then on only that pattern.         *)
(* As stated, for every sketch and every preference:                       *)
C1_LastWriteWins ==
    \A s \in DeviceStatusEnum :
        <>[](deviceStatus = s /\ Created)
            => (<>[](dispatched = s) /\ []<>(rpc = "pattern"))

(* C1 as amended: it holds when visual notifications are enabled; with the *)
(* flag off the loop only clears the strip and dispatches nothing.         *)
C1_LastWriteWinsWhenVisual ==
    \A s \in DeviceStatusEnum :
        <>[](deviceStatus = s /\ Created /\ VisualEnabled)
            => (<>[](dispatched = s) /\ []<>(rpc = "pattern"))

\* The loop renders the value written last after having rendered an older one.
C1_Witness ==
    /\ sketch = Vanilla
    /\ visualNotifications
    /\ deviceStatus = WAITING_GNSS
    /\ dispatched = WAITING_GNSS
    /\ rpc = "pattern"
    /\ mpc = "getPVT"

----------------------------------------------------------------------------
\* Length of one render cycle with the literal timings.
CycleMs(status) == IF status = READY_TO_SEND THEN 1520 ELSE 480

(* C2: a stale status is rendered for at most the cycle already dispatched: *)
(* the switch takes the value deviceStatus holds at that moment, and the    *)
(* cycle it starts lasts at most 1520 ms for READY_TO_SEND and 480 ms for   *)
(* every other status.                                                      *)
C2_StaleAtMostOneCycle ==
    /\ [](rpc \in {"pattern", "end"} /\ reads = 1 => Elapsed(frames) <= CycleMs(dispatched))
    /\ [](rpc = "end" /\ reads = 1 /\ sketch = Vanilla => Elapsed(frames) = CycleMs(dispatched))
    /\ [][rpc = "switch" /\ rpc' \in {"pattern", "end"} => dispatched' = deviceStatus]_vars

\* A whole READY_TO_SEND cycle was rendered while the status was already another one.
C2_Witness ==
    /\ rpc = "end"
    /\ dispatched = READY_TO_SEND
    /\ deviceStatus = NOT_READY
    /\ Elapsed(frames) = 1520

----------------------------------------------------------------------------
(* C3: every iteration reads deviceStatus exactly once and invokes exactly *)
(* one renderer, which runs to completion whatever is written meanwhile.   *)
(* As stated, for every iteration:                                         *)
C3_OneReadOneRenderer ==
    rpc = "end" => reads = 1 /\ invoked = 1

(* C3 as amended: an iteration that finds visualNotifications false reads   *)
(* nothing and invokes nothing; an iteration that reaches the switch reads  *)
(* deviceStatus once, invokes one renderer, and that renderer's remaining   *)
(* calls and frames are those of the value read, whatever deviceStatus      *)
(* holds meanwhile.                                                         *)
C3_OneReadOneRendererWhenVisual ==
    /\ rpc = "switch" => reads = 0 /\ invoked = 0 /\ VisualEnabled
    /\ rpc = "pattern" =>
          /\ reads = 1 /\ invoked = 1
          /\ Len(rops) <= Len(Renderer(dispatched))
          /\ rops = SubSeq(Renderer(dispatched),
                           Len(Renderer(dispatched)) - Len(rops) + 1,
                           Len(Renderer(dispatched)))
          /\ frames = FramesOf(SubSeq(Renderer(dispatched), 1,
                                      Len(Renderer(dispatched)) - Len(rops)))
    /\ rpc = "end" =>
          /\ reads = invoked /\ reads <= 1
          /\ sketch = Sensory => reads = 1
          /\ reads = 1 => frames = FramesOf(Renderer(dispatched))

\* A renderer is half-way through its pattern while the status is already another one.
C3_Witness ==
    /\ rpc = "pattern"
    /\ dispatched = READY_TO_SEND
    /\ deviceStatus = NOT_READY
    /\ Len(frames) = 4

----------------------------------------------------------------------------
\* Positions of setup()/loop() on the maintenance path after the status is set.
MaintenancePositions ==
    {"ifMaintenanceAudio", "maintenanceAudioNotification", "renderConfigurationPage",
     "sa_startConfig", "sa_loop"}

(* C4: MAINTENANCE_MODE is terminal: once deviceStatus is MAINTENANCE_MODE *)
(* no step gives it another value and setup()/loop() stays on the          *)
(* configuration-serving path, until the device restarts.                  *)
C4_MaintenanceTerminal ==
    [][deviceStatus = MAINTENANCE_MODE =>
          \/ deviceStatus' = MAINTENANCE_MODE /\ mpc' \in MaintenancePositions
          \/ Restarting]_vars

\* The configuration page is being served and the render loop has finished a cycle.
C4_Witness ==
    /\ deviceStatus = MAINTENANCE_MODE
    /\ mpc \in {"renderConfigurationPage", "sa_loop"}
    /\ dispatched = MAINTENANCE_MODE
    /\ rpc = "end"

----------------------------------------------------------------------------
\* Both pixels magenta for 240 ms, then both off for 240 ms.
MagentaFlash == << Frame(Magenta, Magenta, 240), Frame(Off, Off, 240) >>

(* C5: if the status stays MAINTENANCE_MODE, the render loop produces the  *)
(* magenta flash in every later iteration, forever.                        *)
(* As stated, for every sketch and every preference:                       *)
C5_MaintenanceForever ==
    <>[](deviceStatus = MAINTENANCE_MODE)
        => ([]<>(rpc = "end") /\ <>[](rpc = "end" => frames = MagentaFlash))

(* C5 as amended: it holds when visual notifications are enabled.          *)
C5_MaintenanceForeverWhenVisual ==
    <>[](deviceStatus = MAINTENANCE_MODE /\ VisualEnabled)
        => ([]<>(rpc = "end") /\ <>[](rpc = "end" => frames = MagentaFlash))

\* A maintenance cycle is complete while the configuration page is served.
C5_Witness ==
    /\ deviceStatus = MAINTENANCE_MODE
    /\ VisualEnabled
    /\ rpc = "end"
    /\ frames = MagentaFlash
    /\ mpc \in {"renderConfigurationPage", "sa_loop"}
    /\ sketch = Vanilla

----------------------------------------------------------------------------
(* C6: the strip is initialised (begin and brightness) before the render   *)
(* loop performs its first strip operation.                                *)
C6_InitBeforeFirstStripOperation ==
    "render" \in users.strip => begun /\ brightness # 0

----------------------------------------------------------------------------
(* C7: the strip and the speaker are operated only by the render context,  *)
(* never by setup()/loop().  As stated:                                    *)
C7_OnlyRenderOperates ==
    users.strip \cup users.init \cup users.speaker \subseteq {"render"}

(* C7 as amended: pixel operations (setPixelColor, clear, show) are made   *)
(* only by the render context; the speaker (tone, noTone) and the strip's  *)
(* begin and setBrightness are operated only by setup().                   *)
C7_OneContextPerOperation ==
    /\ users.strip \subseteq {"render"}
    /\ users.speaker \subseteq {"setup"}
    /\ users.init \subseteq {"setup"}

\* The render loop has flushed the strip, and setup() has initialised it and played a melody.
C7_Witness ==
    /\ users.strip = {"render"}
    /\ users.speaker = {"setup"}
    /\ users.init = {"setup"}
    /\ speaker # 0

----------------------------------------------------------------------------
\* Green 40 ms, off 40 ms, four times, then off 1200 ms.
GreenBurst ==
    << Frame(Green, Green, 40), Frame(Off, Off, 40),
       Frame(Green, Green, 40), Frame(Off, Off, 40),
       Frame(Green, Green, 40), Frame(Off, Off, 40),
       Frame(Green, Green, 40), Frame(Off, Off, 40),
       Frame(Off, Off, 1200) >>

----------------------------------------------------------------------------
\* A flush of the renderer of NOT_READY has happened in this iteration.
NotReadyFlushed ==
    /\ dispatched = NOT_READY
    /\ \/ rpc = "pattern" /\ Len(rops) <= 5
       \/ rpc = "end" /\ reads = 1

(* C9: a NOT_READY cycle displays pixel 0 red and pixel 1 off for 240 ms,  *)
(* then pixel 0 off and pixel 1 red for 240 ms; after every flush of the   *)
(* pattern one pixel is red and the other off.                             *)
C9_NotReadyAntiphase ==
    /\ rpc = "end" /\ reads = 1 /\ dispatched = NOT_READY
          => frames = << Frame(Red, Off, 240), Frame(Off, Red, 240) >>
    /\ NotReadyFlushed
          => \/ shown[0] = Red /\ shown[1] = Off
             \/ shown[0] = Off /\ shown[1] = Red

\* The second flush of a NOT_READY cycle is displayed.
C9_Witness ==
    /\ rpc = "pattern"
    /\ dispatched = NOT_READY
    /\ Len(rops) = 1
    /\ shown[0] = Off
    /\ shown[1] = Red
    /\ frames = << Frame(Red, Off, 240) >>

----------------------------------------------------------------------------
(* C10: a MAINTENANCE_MODE cycle displays both pixels magenta for 240 ms   *)
(* and then both pixels cleared for 240 ms.                                *)
C10_MaintenanceCycle ==
    rpc = "end" /\ reads = 1 /\ dispatched = MAINTENANCE_MODE
        => /\ Len(frames) = 2
           /\ frames[1] = Frame(Magenta, Magenta, 240)
           /\ frames[2] = Frame(Off, Off, 240)
           /\ shown = AllOff

\* A MAINTENANCE_MODE cycle is complete in the sketch built on SensoryAlert.
C10_Witness ==
    /\ sketch = Sensory
    /\ rpc = "end"
    /\ dispatched = MAINTENANCE_MODE
    /\ Len(frames) = 2
    /\ shown = AllOff

----------------------------------------------------------------------------
(* The display methods of AudioVisualNotifications and of SensoryAlert     *)
(* called directly, one after the other and in any order, as a sketch's    *)
(* status switch may do: the patterns themselves, whatever statuses a      *)
(* given sketch assigns.                                                   *)

\* One display method is entered; dispatched names the case it belongs to.
LibraryCall ==
    /\ rpc \in {"not_created", "end"}
    /\ \E status \in DeviceStatusEnum :
          /\ dispatched' = status
          /\ rops' = Renderer(status)
    /\ rpc' = "pattern"
    /\ reads' = 1
    /\ invoked' = 1
    /\ frames' = << >>
    /\ UNCHANGED <<deviceStatus, visualNotifications, audioNotifications, cfg, mpc, mops,
                   hw, netVars, played, wdt, io>>

LibraryNext ==
    \/ LibraryCall
    \/ DeviceStatusThread_call

LibrarySpec == Init /\ [][LibraryNext]_vars

----------------------------------------------------------------------------
----------------------------------------------------------------------------
\* Only blue and off are displayed in the frames so far.
OnlyBlueAndOff ==
    \A i \in 1..Len(frames) : frames[i].p0 \in {Blue, Off} /\ frames[i].p1 \in {Blue, Off}

(* C12: a WAITING_GNSS cycle is two phases of 240 ms that display only     *)
(* blue and off: pixel 0 blue and pixel 1 off, then swapped, in            *)
(* AudioVisualNotifications; both pixels blue, then both off, in           *)
(* SensoryAlert.                                                           *)
C12_WaitingGnssCycle ==
    /\ rpc \in {"pattern", "end"} /\ dispatched = WAITING_GNSS => OnlyBlueAndOff
    /\ rpc = "end" /\ dispatched = WAITING_GNSS
          => frames = IF sketch = Vanilla
                      THEN << Frame(Blue, Off, 240), Frame(Off, Blue, 240) >>
                      ELSE << Frame(Blue, Blue, 240), Frame(Off, Off, 240) >>

\* displayWaitingGnssMode of SensoryAlert has returned, entered after a pattern
\* that left a pixel lit.
C12_Witness ==
    /\ sketch = Sensory
    /\ rpc = "end"
    /\ dispatched = WAITING_GNSS
    /\ Len(frames) = 2
    /\ frames[1].p0 = Blue
    /\ shown = AllOff

----------------------------------------------------------------------------
\* Every setPixelColor among the calls ops targets a pixel of the strip.
InRange(ops) ==
    \A i \in 1..Len(ops) :
        ops[i].op = "setPixelColor" => ops[i].a \in {0, 1} /\ ops[i].a < neoPixelCount

(* C13: for every status and every step of every pattern, a pixel write    *)
(* targets pixel 0 or pixel 1, inside the strip of neoPixelCount = 2       *)
(* pixels; no other index is written.                                      *)
C13_PixelIndexInRange ==
    /\ InRange(rops)
    /\ InRange(mops)
    /\ DOMAIN pixels = 0..1

\* The second pixel has just been written by a pattern of AudioVisualNotifications.
C13_Witness ==
    /\ sketch = Vanilla
    /\ rpc = "pattern"
    /\ dispatched = WAITING_GNSS
    /\ Len(rops) = 2
    /\ pixels[1] = Blue
    /\ shown[1] = Off

----------------------------------------------------------------------------
(* C14: every iteration of the render loop begins by clearing and flushing *)
(* the strip, so both pixels are off when the status is read for dispatch, *)
(* whatever the previous pattern left displayed.  As stated, for every     *)
(* render loop of the repository:                                          *)
C14_OffAtDispatch ==
    rpc = "switch" => shown = AllOff /\ pixels = AllOff

(* C14 as amended: it holds for DeviceStatusThread of                      *)
(* SMAF-Vanilla-Development-Kit.ino, which calls                           *)
(* clearAllVisualNotifications first; the thread of the sketch built on    *)
(* SensoryAlert has no clear step and reads the status with the colours of *)
(* the previous pattern still displayed.                                   *)
C14_OffAtDispatchVanilla ==
    /\ sketch = Vanilla /\ rpc \in {"if", "switch"} => shown = AllOff /\ pixels = AllOff
    /\ sketch = Vanilla /\ rpc = "clearAll" => rops \in {<< Clear, Show >>, << Show >>}

\* The status is about to be read after an iteration that rendered NOT_READY,
\* whose pattern ends with pixel 1 red.
C14_Witness ==
    /\ sketch = Vanilla
    /\ rpc = "switch"
    /\ dispatched = NOT_READY
    /\ shown = AllOff

----------------------------------------------------------------------------
----------------------------------------------------------------------------
\* Positions of setup()/loop() whose next statement may assign deviceStatus.
WriterPositions ==
    {"startConfiguration", "setNotReady", "connectToNetwork", "connectToMqttBroker",
     "connectToMqttBroker_while", "getPVT",
     "sa_maintenance", "sa_connectToNetwork", "sa_connectToMqttBroker",
     "sa_connectToMqttBroker_while"}

\* A step of the setup()/loop() task.
MainStep == mpc' # mpc \/ mops' # mops

(* C16: the render loop and the pattern renderers leave deviceStatus       *)
(* unchanged; every assignment is made by a statement of setup, loop,      *)
(* connectToNetwork or connectToMqttBroker (or is the reset of the device).*)
C16_OnlyMainContextWrites ==
    [][/\ (renderVars' # renderVars /\ ~MainStep => deviceStatus' = deviceStatus)
       /\ (deviceStatus' # deviceStatus => Restarting \/ mpc \in WriterPositions)]_vars

\* The render loop is inside a pattern while connectToMqttBroker has just
\* written another status.
C16_Witness ==
    /\ rpc = "pattern"
    /\ dispatched = NOT_READY
    /\ deviceStatus = WAITING_GNSS
    /\ mpc = "connectToMqttBroker_while"
    /\ Len(rops) < 8

----------------------------------------------------------------------------
RECURSIVE Duration(_)
\* Time a sequence of notes takes.
Duration(ns) == IF ns = << >> THEN 0 ELSE Head(ns).ms + Duration(Tail(ns))

\* setup() is inside the intro melody.
InIntro == mpc \in {"introAudioNotification", "playIntroMelody"}

\* The intro melody has just returned to setup().
IntroReturned ==
    \/ mpc = "loadPreferences" /\ audioNotifications
    \/ mpc = "sa_loadPreferences"

(* C17: the intro melody plays E6, F6, G6 in this order, silences the      *)
(* speaker after each tone, blocks setup() for 120 + 120 + 320 = 560 ms    *)
(* (AudioVisualNotifications) or 160 + 160 + 320 = 640 ms (SensoryAlert),  *)
(* and returns with the speaker silent and nothing left to play.           *)
C17_IntroMelody ==
    /\ NOTE_E6 < NOTE_F6 /\ NOTE_F6 < NOTE_G6
    /\ InIntro /\ Head(mops).op = "tone" => speaker = 0
    /\ InIntro /\ Head(mops).op = "noTone" => speaker # 0 /\ notes # << >>
    /\ IntroReturned =>
          /\ speaker = 0
          /\ mops = << >>
          /\ Len(notes) = 3
          /\ <<notes[1].f, notes[2].f, notes[3].f>> = <<NOTE_E6, NOTE_F6, NOTE_G6>>
          /\ <<notes[1].ms, notes[2].ms, notes[3].ms>> =
                IF sketch = Vanilla THEN <<120, 120, 320>> ELSE <<160, 160, 320>>
          /\ Duration(notes) = IF sketch = Vanilla THEN 560 ELSE 640

\* introAudioNotification has returned after its three notes.
C17_Witness ==
    /\ sketch = Vanilla
    /\ mpc = "loadPreferences"
    /\ audioNotifications
    /\ Duration(notes) = 560
    /\ speaker = 0

----------------------------------------------------------------------------
\* The melodies of setup()'s maintenance branch.
MaintenanceMelodies == {"maintenanceAudioNotification", "playConfigurationMelody"}

\* Positions of setup()/loop() from the start of the maintenance melody on.
AfterMaintenanceMelody ==
    {"maintenanceAudioNotification", "renderConfigurationPage",
     "playConfigurationMelody", "sa_maintenance", "sa_startConfig", "sa_loop"}

(* C18: melodies are started only by setup(), never by the render loop:    *)
(* since the last reset the intro melody has been started at most once and *)
(* first, the maintenance melody at most once and only on the path into    *)
(* maintenance mode, and no call of the render loop operates the speaker.  *)
C18_MelodiesOnlyFromSetup ==
    /\ melodies \in {<< >>,
                     << "introAudioNotification" >>,
                     << "introAudioNotification", "maintenanceAudioNotification" >>,
                     << "playIntroMelody" >>,
                     << "playIntroMelody", "playConfigurationMelody" >>}
    /\ Len(melodies) = 2 =>
          /\ mpc \in AfterMaintenanceMelody
          /\ mpc \in {"renderConfigurationPage", "sa_loop"} => deviceStatus = MAINTENANCE_MODE
    /\ "render" \notin users.speaker
    /\ \A i \in 1..Len(rops) : Resource(rops[i]) # "speaker"
    /\ speaker # 0 => mpc \in {"introAudioNotification", "maintenanceAudioNotification",
                               "playIntroMelody", "playConfigurationMelody"}

\* Both melodies have been played and the render loop flashes the
\* maintenance pattern while the configuration page is served.
C18_Witness ==
    /\ melodies = << "introAudioNotification", "maintenanceAudioNotification" >>
    /\ mpc = "renderConfigurationPage"
    /\ rpc = "pattern"
    /\ dispatched = MAINTENANCE_MODE
    /\ speaker = 0

----------------------------------------------------------------------------
\* The configuration page is being served.
ServingPage ==
    \/ mpc = "renderConfigurationPage"
    \/ mpc = "sa_loop" /\ deviceStatus = MAINTENANCE_MODE

(* C19: whenever deviceStatus is MAINTENANCE_MODE no task is subscribed to *)
(* the watchdog.  As stated, for every sketch:                             *)
C19_NotArmedInMaintenance ==
    deviceStatus = MAINTENANCE_MODE => wdtTasks = {}

(* C19 as amended: in SMAF-Vanilla-Development-Kit.ino no task is ever     *)
(* subscribed while the status is MAINTENANCE_MODE.  The sketch built on   *)
(* SensoryAlert subscribes the setup task before it decides, so the task   *)
(* is still subscribed (timer just started) while the status is already    *)
(* MAINTENANCE_MODE, until suspendWatchdog() runs after startConfig().  In *)
(* both, no task is subscribed while the configuration page is served, and *)
(* a reset in maintenance mode is never the watchdog's.                    *)
C19_NotArmedWhilePageServed ==
    /\ [](sketch = Vanilla /\ deviceStatus = MAINTENANCE_MODE => wdtTasks = {} /\ wdtAge = 0)
    /\ [](ServingPage => wdtTasks = {} /\ wdtAge = 0)
    /\ [](deviceStatus = MAINTENANCE_MODE /\ wdtTasks # {}
             => sketch = Sensory /\ mpc = "sa_startConfig" /\ wdtAge = 0)
    /\ [][deviceStatus = MAINTENANCE_MODE /\ Restarting => ServingPage /\ wdtTasks = {}]_vars

\* The sketch built on SensoryAlert serves the configuration page after having
\* suspended the watchdog it had started.
C19_Witness ==
    /\ sketch = Sensory
    /\ ServingPage
    /\ wdtTasks = {}
    /\ dispatched = MAINTENANCE_MODE
    /\ melodies = << "playIntroMelody", "playConfigurationMelody" >>

----------------------------------------------------------------------------
\* A step of DeviceStatusThread alone.
RenderStep == renderVars' # renderVars /\ ~MainStep

(* C20: DeviceStatusThread is never subscribed to the watchdog and never   *)
(* resets it; the task setup()/loop() always has a statement it can        *)
(* execute whatever the thread is doing; and as long as the device is not  *)
(* reset the thread completes iteration after iteration even if            *)
(* setup()/loop() stops for ever.                                          *)
C20_RenderUnsupervised ==
    /\ []("render" \notin wdtTasks)
    /\ [][RenderStep => UNCHANGED wdt]_vars
    /\ [](ENABLED MainTask)
    /\ (<>[]Created => []<>(rpc = "end"))

\* The watchdog's timer of the loop task is running out in a Wi-Fi retry loop
\* while the thread has completed a cycle.
C20_Witness ==
    /\ mpc = "connectToNetwork_while"
    /\ wdtTasks = {"setup"}
    /\ wdtAge >= 2 * WdtTick
    /\ rpc = "end"
    /\ reads = 1
    /\ dispatched = NOT_READY

----------------------------------------------------------------------------
\* The statements of DeviceStatusThread's loop.
ThreadPositions == {"for", "clearAll", "if", "switch", "pattern", "end"}

\* The thread is at the first statement of an iteration's body.
IterationStarted ==
    /\ rpc = IF sketch = Vanilla THEN "clearAll" ELSE "switch"
    /\ reads = 0
    /\ rops = IF sketch = Vanilla THEN clearAllVisualNotifications ELSE << >>

(* C21: DeviceStatusThread never returns: once created it is at a          *)
(* statement of its loop and has a next step, and only a reset of the      *)
(* device removes it; inside a notifications method every step consumes    *)
(* one of the finitely many calls left; and as long as the device is not   *)
(* reset a new iteration is started again and again.                       *)
C21_ThreadNeverReturns ==
    /\ [](Created => rpc \in ThreadPositions /\ ENABLED DeviceStatusThread)
    /\ [][Created /\ ~Created' => Restarting]_vars
    /\ [][(rpc \in {"clearAll", "pattern"} /\ rops' # rops /\ Created')
             => (rpc' \in {rpc, AfterRenderCall(rpc)} /\ Len(rops) > Len(rops'))]_vars
    /\ (<>[]Created => []<>IterationStarted)

\* The thread starts a new iteration after one in which it rendered a pattern.
C21_Witness ==
    /\ IterationStarted
    /\ dispatched \in DeviceStatusEnum
    /\ shown # AllOff

----------------------------------------------------------------------------
(* The switch of DeviceStatusThread as a function of the byte it reads.    *)
(* DeviceStatusEnum is declared ": byte": the variable can hold values     *)
(* that are no enumerator, although no statement of the sketches stores    *)
(* one.  SwitchSpec boots the device with any small byte in deviceStatus   *)
(* and runs the thread beside the straight-line part of setup().           *)
MaxStatusByte == 7
StatusBytes == 0..MaxStatusByte

SwitchInit ==
    /\ deviceStatus \in StatusBytes
    /\ visualNotifications = FALSE
    /\ audioNotifications = FALSE
    /\ mpc = "setup"
    /\ mops = << >>
    /\ rpc = "not_created"
    /\ rops = << >>
    /\ dispatched = NoStatus
    /\ reads = 0
    /\ invoked = 0
    /\ frames = << >>
    /\ pixels = [n \in 0..(neoPixelCount - 1) |-> Off]
    /\ shown = [n \in 0..(neoPixelCount - 1) |-> Off]
    /\ begun = FALSE
    /\ brightness = 0
    /\ speaker = 0
    /\ users = NoUsers
    /\ wifi = FALSE
    /\ mqtt = FALSE
    /\ melodies = << >>
    /\ notes = << >>
    /\ wdtTasks = {}
    /\ wdtAge = 0
    /\ button = Unread
    /\ pvt = NoPvt
    /\ published = << >>
    /\ subscribed = FALSE
    /\ delayed = 0
    /\ rcp = "accept"
    /\ request = NoRequest
    /\ response = FALSE
    /\ nvs \in StoredPreferences
    /\ sketch \in Sketches

SwitchNext == SetupBoot \/ DeviceStatusThread

SwitchSpec == SwitchInit /\ [][SwitchNext]_vars

\* The value the switch read matches none of its case labels.
Unhandled == dispatched \notin DeviceStatusEnum \cup {NoStatus}

(* C22: when the value the switch reads matches none of the five case      *)
(* labels, the switch is left at once: no renderer is invoked, no call of  *)
(* a renderer is pending, the strip is not touched by the switch, the      *)
(* pixels clearAllVisualNotifications() switched off stay off for the      *)
(* rest of the iteration, and the thread has its next iteration to start.  *)
C22_UnhandledRendersNothing ==
    /\ [][(rpc = "switch" /\ rpc' # rpc /\ Created' /\ Unhandled')
             => (rpc' = "end" /\ rops' = << >> /\ invoked' = 0 /\ hw' = hw)]_vars
    /\ [](rpc = "end" /\ reads = 1 /\ Unhandled
             => /\ invoked = 0
                /\ frames = << >>
                /\ rops = << >>
                /\ sketch = Vanilla => shown = AllOff
                /\ ENABLED DeviceStatusThread)
    /\ [](Unhandled => rpc # "pattern")

\* An iteration of the Vanilla thread has ended after its switch read a
\* byte that is no enumerator.
C22_Witness ==
    /\ sketch = Vanilla
    /\ visualNotifications
    /\ rpc = "end"
    /\ reads = 1
    /\ Unhandled
    /\ deviceStatus = dispatched

----------------------------------------------------------------------------
\* The entry tests of connectToNetwork and of connectToMqttBroker.
AtWifiTest == mpc \in {"connectToNetwork", "sa_connectToNetwork"}
AtMqttTest == mpc \in {"connectToMqttBroker", "sa_connectToMqttBroker"}

(* C23: a write of deviceStatus is one step of setup()/loop() that stores  *)
(* the new value whatever the old one is and whatever the thread is doing: *)
(* the statement that finds Wi-Fi, or the MQTT client, disconnected stores *)
(* NOT_READY, also over READY_TO_SEND; the step changes nothing of the     *)
(* thread; and at the statements that write, setup()/loop() can always     *)
(* take its step.                                                          *)
C23_WriteIsUnconditional ==
    /\ [][(AtWifiTest /\ ~wifi /\ mpc' # mpc /\ ~Restarting)
             => deviceStatus' = NOT_READY]_vars
    /\ [][(AtMqttTest /\ ~mqtt /\ mpc' # mpc /\ ~Restarting)
             => deviceStatus' = NOT_READY]_vars
    /\ [][(deviceStatus' # deviceStatus /\ ~Restarting)
             => (mpc \in WriterPositions /\ renderVars' = renderVars)]_vars
    /\ [](mpc \in WriterPositions => ENABLED (MainTask /\ mpc' # mpc))

\* NOT_READY has been stored over READY_TO_SEND while the thread is still in
\* the middle of the READY_TO_SEND pattern.
C23_Witness ==
    /\ deviceStatus = NOT_READY
    /\ mpc \in {"connectToNetwork_while", "connectToMqttBroker_while"}
    /\ dispatched = READY_TO_SEND
    /\ rpc = "pattern"
    /\ Len(rops) > 1

----------------------------------------------------------------------------
\* The watchdog's timer is hardware: time passes and an expired timeout
\* resets the device, whatever the tasks do.
WatchdogFairSpec == Spec /\ WF_vars(Tick) /\ WF_vars(WatchdogTimeout)

\* The watchdog armed by the initWatchdog(30, true) that ends setup().
ArmedVanilla == sketch = Vanilla /\ wdtTasks # {}

\* The retry loops of connectToNetwork and connectToMqttBroker.
RetryPositions ==
    {"connectToNetwork_while", "connectToNetwork_delay",
     "connectToMqttBroker_while", "connectToMqttBroker_delay"}

----------------------------------------------------------------------------
\* The two branches of the if of setup() in SMAF-Vanilla-Development-Kit.ino.
VanillaMaintenancePath ==
    {"startConfiguration", "ifMaintenanceAudio", "maintenanceAudioNotification",
     "renderConfigurationPage"}
VanillaNormalPath ==
    {"setNotReady", "gnssBegin", "connectToNetwork", "connectToNetwork_while",
     "connectToNetwork_delay", "connectToMqttBroker", "connectToMqttBroker_while",
     "connectToMqttBroker_delay", "getPVT", "mqttLoop"}

\* setup() of the Vanilla sketch has taken its decision.
Decided == sketch = Vanilla /\ button # Unread

\* The storage holds what setup() loaded: no form has been saved since.
AsLoaded == rcp # "delay"

(* C25: setup() of SMAF-Vanilla-Development-Kit.ino is on its maintenance  *)
(* branch exactly when the button read LOW or loadPreferences() reported   *)
(* the configuration it loaded invalid.  On that branch the status is     *)
(* MAINTENANCE_MODE once assigned, setup() stays on the branch until the   *)
(* device restarts, and nothing of loop() has run: no connection, no       *)
(* subscription, no poll of the receiver, no publish, no retry delay.  On  *)
(* the other branch the status is NOT_READY when setup() goes on to the    *)
(* receiver and is never MAINTENANCE_MODE.                                 *)
C25_MaintenanceIffButtonOrInvalid ==
    /\ [](Decided => mpc \in VanillaMaintenancePath \cup VanillaNormalPath)
    /\ [](Decided /\ AsLoaded => (mpc \in VanillaMaintenancePath
                                      <=> (button = "LOW" \/ ~loadPreferences(nvs))))
    /\ [](Decided /\ mpc \in VanillaMaintenancePath \ {"startConfiguration"}
             => deviceStatus = MAINTENANCE_MODE)
    /\ [](Decided /\ mpc \in VanillaMaintenancePath
             => /\ ~wifi /\ ~mqtt /\ ~subscribed
                /\ pvt = NoPvt /\ published = << >> /\ delayed = 0
                /\ wdtTasks = {})
    /\ [][(Decided /\ mpc \in VanillaMaintenancePath)
             => (mpc' \in VanillaMaintenancePath \/ Restarting)]_vars
    /\ [](Decided /\ mpc = "gnssBegin" => deviceStatus = NOT_READY)
    /\ [](Decided /\ mpc \in VanillaNormalPath => deviceStatus # MAINTENANCE_MODE)

\* The button was not pressed and the stored configuration is invalid: the
\* configuration page is served.
C25_Witness ==
    /\ Decided
    /\ button = "HIGH"
    /\ ~loadPreferences(nvs)
    /\ mpc = "renderConfigurationPage"
    /\ deviceStatus = MAINTENANCE_MODE

----------------------------------------------------------------------------
\* The reading has a fix, a latitude and a longitude other than zero.
Locked(r) == r.gnssFixOk /\ r.latitude # 0 /\ r.longitude # 0

\* The step of loop() that polls the receiver.
PollStep == mpc = "getPVT" /\ mpc' = "mqttLoop"

----------------------------------------------------------------------------
(* C27: connectToMqttBroker of SMAF-Vanilla-Development-Kit.ino.  Its      *)
(* entry test returns at once and changes nothing when the client is       *)
(* connected, and otherwise stores NOT_READY before the retry loop is      *)
(* entered.  In the loop a failed mqtt.connect() is followed by            *)
(* delay(4000) and the delay by the loop condition again.  The loop is     *)
(* left only with the client connected, and then the status is             *)
(* WAITING_GNSS and mqtt.subscribe() has been called on the connection.    *)
C27_MqttConnectReturnsConnected ==
    /\ [][(mpc = "connectToMqttBroker" /\ mpc' # mpc /\ ~Restarting)
             => IF mqtt
                THEN /\ mpc' = "getPVT"
                     /\ UNCHANGED <<deviceStatus, wifi, mqtt, subscribed, delayed>>
                ELSE /\ mpc' = "connectToMqttBroker_while"
                     /\ deviceStatus' = NOT_READY
                     /\ UNCHANGED <<wifi, mqtt, subscribed, delayed>>]_vars
    /\ [][(mpc = "connectToMqttBroker_while" /\ mpc' # mpc /\ ~Restarting)
             => \/ /\ ~mqtt /\ ~mqtt'
                   /\ mpc' = "connectToMqttBroker_delay"
                   /\ delayed' = 4000
                   /\ deviceStatus' = deviceStatus
                \/ /\ mqtt /\ mqtt'
                   /\ mpc' = "getPVT"
                   /\ subscribed
                   /\ deviceStatus = WAITING_GNSS
                   /\ deviceStatus' = deviceStatus]_vars
    /\ [][(mpc = "connectToMqttBroker_while" /\ ~mqtt /\ mqtt')
             => (mpc' = mpc /\ subscribed' /\ deviceStatus' = WAITING_GNSS)]_vars
    /\ [](mpc = "connectToMqttBroker_delay" => delayed = 4000)
    /\ [][(mpc = "connectToMqttBroker_delay" /\ mpc' # mpc /\ ~Restarting)
             => (mpc' = "connectToMqttBroker_while" /\ delayed' = 0)]_vars

\* connectToMqttBroker has returned after connecting: loop() is about to
\* poll the receiver with the status WAITING_GNSS.
C27_Witness ==
    /\ sketch = Vanilla
    /\ mpc = "getPVT"
    /\ mqtt /\ subscribed
    /\ deviceStatus = WAITING_GNSS
    /\ dispatched = NOT_READY

----------------------------------------------------------------------------
(* C28: whenever connectToMqttBroker of the Vanilla sketch is at the       *)
(* condition of its retry loop with the client not connected, about to     *)
(* call mqtt.connect(), deviceStatus is NOT_READY.                         *)
C28_NotReadyInRetryLoop ==
    mpc = "connectToMqttBroker_while" /\ ~mqtt => deviceStatus = NOT_READY

----------------------------------------------------------------------------
\* The retry loop of connectToNetwork in the Vanilla sketch.
WifiRetryPositions == {"connectToNetwork_while", "connectToNetwork_delay"}

\* The thread is rendering the pattern of NOT_READY.
NotReadyShown ==
    /\ rpc = "pattern"
    /\ dispatched = NOT_READY
    /\ invoked = 1

\* connectToNetwork: entry test, retry every 6400 ms, return when connected,
\* NOT_READY throughout.
WifiConnectSafety ==
    /\ [][(mpc = "connectToNetwork" /\ mpc' # mpc /\ ~Restarting)
             => IF wifi
                THEN /\ mpc' = "connectToMqttBroker"
                     /\ UNCHANGED <<deviceStatus, wifi, mqtt, delayed>>
                ELSE /\ mpc' = "connectToNetwork_while"
                     /\ deviceStatus' = NOT_READY]_vars
    /\ [](mpc \in WifiRetryPositions => deviceStatus = NOT_READY)
    /\ [][(mpc = "connectToNetwork_while" /\ mpc' # mpc /\ ~Restarting)
             => \/ ~wifi /\ mpc' = "connectToNetwork_delay" /\ delayed' = 6400
                \/ /\ wifi /\ wifi'
                   /\ mpc' = "connectToMqttBroker"
                   /\ deviceStatus' = NOT_READY]_vars
    /\ [](mpc = "connectToNetwork_delay" => delayed = 6400)
    /\ [][(mpc = "connectToNetwork_delay" /\ mpc' # mpc /\ ~Restarting)
             => mpc' = "connectToNetwork_while"]_vars
    /\ [][(mpc \in WifiRetryPositions /\ rpc = "switch" /\ rpc' # rpc /\ Created')
             => (dispatched' = NOT_READY /\ rops' = notReadyVisualNotification)]_vars

----------------------------------------------------------------------------
\* setup() of the Vanilla sketch has executed the assignment that opens its
\* else branch.
OnNormalPath == Decided /\ mpc \in VanillaNormalPath \ {"setNotReady"}

(* C30: once setup() of the Vanilla sketch has taken its else branch and   *)
(* stored NOT_READY, deviceStatus is NOT_READY, WAITING_GNSS or            *)
(* READY_TO_SEND until the device is reset.  No statement stores NONE:     *)
(* the status becomes NONE only by a reset.  MAINTENANCE_MODE is stored    *)
(* only by the statement of setup()'s maintenance branch.                  *)
C30_StatusOnNormalPath ==
    /\ [](OnNormalPath => deviceStatus \in {NOT_READY, WAITING_GNSS, READY_TO_SEND})
    /\ [][OnNormalPath => (OnNormalPath' \/ Restarting)]_vars
    /\ [][(deviceStatus' = NONE /\ deviceStatus # NONE) => Restarting]_vars
    /\ [][(deviceStatus' = MAINTENANCE_MODE /\ deviceStatus # MAINTENANCE_MODE)
             => mpc \in {"startConfiguration", "sa_maintenance"}]_vars

\* An iteration of loop() that received a reading without a fix has ended
\* with the status WAITING_GNSS.
C30_Witness ==
    /\ OnNormalPath
    /\ mpc = "connectToNetwork"
    /\ pvt.newData /\ ~pvt.gnssFixOk
    /\ deviceStatus = WAITING_GNSS

----------------------------------------------------------------------------
\* The Vanilla sketch with its visualNotifications flag false: zero-initialised
\* until setup() loads the preferences, or loaded from a preference that is off.
FlagOff == sketch = Vanilla /\ ~visualNotifications

(* C31: while visualNotifications is false the thread of the Vanilla       *)
(* sketch never reaches its switch: it reads no status, invokes no         *)
(* renderer and lets no frame be displayed; the pixel buffer holds only    *)
(* off, and whatever it flushes to the LEDs is off, for every status.      *)
C31_OnlyClearsWhenFlagOff ==
    /\ [](FlagOff /\ Created
             => /\ rpc \in {"for", "clearAll", "if", "end"}
                /\ reads = 0 /\ invoked = 0 /\ frames = << >>)
    /\ [](FlagOff => pixels = AllOff)
    /\ [][(FlagOff /\ shown' # shown) => shown' = AllOff]_vars
    /\ [](FlagOff /\ "render" \in users.strip /\ rpc \in {"if", "end"} => shown = AllOff)

\* The preference is off and the status is READY_TO_SEND: the thread has
\* ended an iteration in which it only cleared the strip.
C31_Witness ==
    /\ FlagOff
    /\ deviceStatus = READY_TO_SEND
    /\ rpc = "end"
    /\ "render" \in users.strip
    /\ shown = AllOff

----------------------------------------------------------------------------
\* The Vanilla sketch with the audio preference off.
\* The audio preference setup() loads or has loaded is false.
AudioOff == sketch = Vanilla /\ ~loadBool(nvs.audio) /\ rcp # "delay"

\* The calls of a notifications method that operate the speaker.
SpeakerCalls(ops) == {i \in 1..Len(ops) : Resource(ops[i]) = "speaker"}

(* C32: in the Vanilla sketch, as long as the audio preference is false    *)
(* the flag stays false, no melody is started, no call of the speaker is   *)
(* pending or made and the speaker is silent; the two tests of the flag in *)
(* setup() go straight on to the statement that follows the melody, and    *)
(* change nothing else.                                                    *)
C32_SilentWhenAudioOff ==
    /\ [](AudioOff => /\ ~audioNotifications
                      /\ melodies = << >> /\ notes = << >>
                      /\ speaker = 0 /\ users.speaker = {}
                      /\ SpeakerCalls(mops) = {})
    /\ [][(AudioOff /\ mpc = "ifIntro" /\ mpc' # mpc)
             => (mpc' = "loadPreferences"
                 /\ UNCHANGED <<deviceStatus, mops, renderVars, hw, netVars, played, wdt, io>>)]_vars
    /\ [][(AudioOff /\ mpc = "ifMaintenanceAudio" /\ mpc' # mpc)
             => (mpc' = "renderConfigurationPage"
                 /\ deviceStatus' = MAINTENANCE_MODE
                 /\ UNCHANGED <<deviceStatus, mops, renderVars, hw, netVars, played, wdt, io>>)]_vars

\* The configuration page is served and nothing has been played.
C32_Witness ==
    /\ AudioOff
    /\ mpc = "renderConfigurationPage"
    /\ deviceStatus = MAINTENANCE_MODE
    /\ melodies = << >>
    /\ speaker = 0
    /\ users.init = {"setup"}

----------------------------------------------------------------------------
\* The statuses whose pattern, displayed on a cleared strip, is the sequence
\* of frames fs.
StatusesShowing(fs) == {s \in DeviceStatusEnum : FramesOf(Renderer(s)) = fs}

(* C33: the frames (pixel 0, pixel 1, duration) an iteration has displayed *)
(* when it ends are the pattern of the status it dispatched and of no      *)
(* other status: the observer of one cycle can tell the status, also NONE  *)
(* from MAINTENANCE_MODE, which both use magenta.                          *)
C33_PatternsDistinguishable ==
    rpc = "end" /\ reads = 1 => StatusesShowing(frames) = {dispatched}

\* A MAINTENANCE_MODE cycle of the Vanilla sketch is complete: it uses the
\* colour of the NONE pattern in other frames.
C33_Witness ==
    /\ sketch = Vanilla
    /\ rpc = "end"
    /\ reads = 1
    /\ dispatched = MAINTENANCE_MODE
    /\ frames = MagentaFlash
    /\ FramesOf(Renderer(NONE))[1].p0 = Magenta

----------------------------------------------------------------------------
\* The colour of the pattern of each status.
StatusColour(status) ==
    CASE status = NOT_READY -> Red
      [] status = READY_TO_SEND -> Green
      [] status = WAITING_GNSS -> Blue
      [] OTHER -> Magenta

\* Every pixel of the strip state px is off or has colour c.
OffOr(c, px) == \A n \in 0..(neoPixelCount - 1) : px[n] \in {Off, c}

(* C34: what the thread flushes to the LEDs is, on every pixel, off or the *)
(* colour of the status its switch read in the current iteration (red for  *)
(* NOT_READY, green for READY_TO_SEND, blue for WAITING_GNSS, magenta for  *)
(* NONE and MAINTENANCE_MODE), and so is every frame of the iteration: no  *)
(* iteration displays the colours of two statuses.                         *)
C34_ColourOfDispatchedStatus ==
    /\ [][(RenderStep /\ shown' # shown)
             => IF reads' = 1
                THEN OffOr(StatusColour(dispatched'), shown')
                ELSE shown' = AllOff]_vars
    /\ [](Created /\ reads = 1
             => \A i \in 1..Len(frames) :
                   OffOr(StatusColour(dispatched), [n \in 0..1 |->
                            IF n = 0 THEN frames[i].p0 ELSE frames[i].p1]))
    /\ [](Created /\ reads = 0 => frames = << >>)

\* The status has been overwritten during a READY_TO_SEND cycle: the thread
\* still displays green.
C34_Witness ==
    /\ rpc = "pattern"
    /\ dispatched = READY_TO_SEND
    /\ deviceStatus = NOT_READY
    /\ shown[0] = Green /\ shown[1] = Green

----------------------------------------------------------------------------
\* maintenanceAudioNotification has just returned to setup().
MaintenanceReturned ==
    /\ sketch = Vanilla
    /\ mpc = "renderConfigurationPage"
    /\ melodies = << "introAudioNotification", "maintenanceAudioNotification" >>

\* What the speaker has done, interval by interval, since the maintenance
\* melody was started (the three notes before it are the intro melody's).
MaintenanceNotes == SubSeq(notes, 4, Len(notes))

(* C35: the maintenance melody of AudioVisualNotifications is E6, E6, F6   *)
(* (120 ms each, each followed by 80 ms of silence), G6 (280 ms), then E6  *)
(* (120 ms), F6 (120 ms), G6 (320 ms); its second phrase is the intro      *)
(* melody as setup() played it, the call blocks for 1440 ms and returns    *)
(* with the speaker silent.                                                *)
C35_MaintenanceMelody ==
    MaintenanceReturned =>
       /\ MaintenanceNotes =
             << Note(NOTE_E6, 120), Note(0, 80),
                Note(NOTE_E6, 120), Note(0, 80),
                Note(NOTE_F6, 120), Note(0, 80),
                Note(NOTE_G6, 280),
                Note(NOTE_E6, 120), Note(NOTE_F6, 120), Note(NOTE_G6, 320) >>
       /\ SubSeq(MaintenanceNotes, 8, 10) = SubSeq(notes, 1, 3)
       /\ Duration(MaintenanceNotes) = 1440
       /\ speaker = 0
       /\ mops = << >>

\* Both melodies have been played and the configuration page is served.
C35_Witness ==
    /\ MaintenanceReturned
    /\ deviceStatus = MAINTENANCE_MODE
    /\ Len(notes) = 13
    /\ notes[10].f = NOTE_G6
    /\ speaker = 0

----------------------------------------------------------------------------
\* setup() is inside its loop around renderConfigurationPage().
InPage == sketch = Vanilla /\ mpc = "renderConfigurationPage"

\* store holds, under each of the ten keys, what the form data gives for
\* it: the field's text, its number for the port, and for a checkbox
\* whether the field is in the form.
HoldsForm(store, data) ==
    /\ \A k \in StringKeys :
          store.str[k] = Stored(IF k \in DOMAIN data THEN data[k] ELSE "")
    /\ store.port = Stored(IF data[MQTT_SERVER_PORT] = "1883" THEN 1883 ELSE 0)
    /\ store.audio = Stored(AUDIO_NOTIFICATIONS \in DOMAIN data)
    /\ store.visual = Stored(VISUAL_NOTIFICATIONS \in DOMAIN data)

----------------------------------------------------------------------------
\* Each of the seven strings the getters load is neither empty nor the
\* default "Unknown", and the port is not 0.
Essential(store) ==
    /\ \A k \in StringKeys : loadString(store.str[k]) \notin {"", Unknown}
    /\ loadInt(store.port) # 0

(* C37: loadPreferences() returns true exactly when each of the seven      *)
(* string preferences is non-empty and is not the default "Unknown", and   *)
(* the port is not 0: with the button released, setup() of the Vanilla     *)
(* sketch goes on to the network exactly when the preferences it loaded    *)
(* are such.                                                               *)
C37_ValidIffEssential ==
    Decided /\ AsLoaded /\ button = "HIGH"
       => (mpc \in VanillaNormalPath <=> Essential(nvs))

====
